---- MODULE Spec2Model ----
(***************************************************************************)
(* batch-image-resizer (src/index.cjs, the v1.4.5 library that starts at   *)
(* line 358): the adaptive (AIMD) concurrency limiter and the per-file     *)
(* fallback / commit pipeline of resizeImages.                             *)
(*                                                                         *)
(* The specifications of this module:                                      *)
(*   SpecLimiter  createAdaptiveLimiter driven by the queue-and-drain loop *)
(*                of resizeImages with cfg.auto = true; tasks are opaque   *)
(*                and settle ok / with a content error / with a transient  *)
(*                resource error.                                          *)
(*   SpecBurst    the same with more files than the cap admits.            *)
(*   SpecWalk     the same with a directory walk that may throw.           *)
(*   Spec         resizeImages with cfg.auto = false: the fixed limiter,   *)
(*                processFile's fallback chain and the file system it      *)
(*                writes to.                                               *)
(*   SpecPrune    the same over a tree that holds a .DS_Store file, with   *)
(*                skipDSStore off and the pruneDSStore cleanup on or off.  *)
(*   FairSpec     both kinds of run under fair scheduling.                 *)
(*   SpecConfig   the start of the call: options, validation, set-up.      *)
(*   SpecNames    the flat output names: makeFlatName and uniquify.        *)
(* Each specification leaves the variables of the others at their initial  *)
(* values.                                                                 *)
(***************************************************************************)
EXTENDS Integers, Sequences, FiniteSets, TLC

\* ------------------------------------------------------------------------
\* Bounds of the model
\* ------------------------------------------------------------------------
\* Largest value drawn for the options minConcurrency and maxConcurrency.
MaxCapCfg == 4
\* Number of files walk() yields, each submitted to the adaptive limiter.
MaxTasks == 3
\* How far past windowMs + lagThresholdMs a tick may be delayed.
MaxLagOver == 1
\* Number of files walk() yields in a run with the fixed limiter.
MaxItems == 2
\* Number of files walk() yields in the runs of SpecBurst: one more than the
\* cap can hold after a decrease from MaxCapCfg.
BurstTasks == 4
\* Largest value drawn for the option concurrency.
MaxFixed == 2

\* Options of the adaptive limiter (cfg.windowMs, cfg.targetLatencyMs,
\* cfg.lagThresholdMs), in model time units.
windowMs == 1
targetLatencyMs == 2
lagThresholdMs == 0

\* Options of the thread co-tuning (cfg.targetThreads, cfg.minSharpThreads,
\* cfg.maxSharpThreads) and the pool size set when cfg.autoThreads is off.
targetThreads == 4
minSharpThreads == 1
maxSharpThreads == 4
pinnedThreads == 2

\* Oldest a task may get (time since schedule()) before time stops: latencies
\* range over 0 .. target + 1, so averages fall within the target, between the
\* target and 1.25 x target, and above 1.25 x target.
MaxAge == targetLatencyMs + 1

\* ------------------------------------------------------------------------
\* Helpers
\* ------------------------------------------------------------------------
Min2(a, b) == IF a <= b THEN a ELSE b
Max2(a, b) == IF a >= b THEN a ELSE b

\* Math.ceil(cap * 0.7) on a non-negative integer cap.
CeilSeventy(c) == (7 * c + 9) \div 10

\* clamp = (x, lo, hi) => Math.max(lo, Math.min(hi, x))
clamp(x, lo, hi) == Max2(lo, Min2(hi, x))

VARIABLES
  \* ---- adaptive limiter (SpecLimiter) ----
  minConcurrency,  \* cfg.minConcurrency (min)
  maxConcurrency,  \* cfg.maxConcurrency (max)
  cap,             \* current concurrency cap
  inFlight,        \* dispatched and not yet settled, as counted by the limiter
  q,               \* pending queue (task ids, head first)
  sumLatency,      \* per-window latency accumulator
  samples,         \* per-window sample count
  emfileCount,     \* per-window transient error count
  sinceTick,       \* now - lastTick
  timerOn,         \* the setInterval timer is armed
  tstate,          \* per task: "new", "queued", "running", "settled"; "unwalked"
                   \* once walk() has thrown before yielding it
  age,             \* per pending or running task: Date.now() - start, start taken
                   \* in schedule(); 0 for the others
  lastTick,        \* history: what the tick that has just run saw (NoTick once
                   \* anything else has happened since)
  streak,          \* history: the current run of good windows
  threads,         \* cfg.autoThreads, and the pool size last given to
                   \* sharp.concurrency()
  waited           \* history, per running task: the time it had spent in the
                   \* queue when pump() started it

VARIABLES
  \* ---- resizeImages with the fixed limiter (Spec) ----
  cfg,             \* the options: overwrite, flatten, format, fallbackFormat,
                   \* sips (heicFallback and jpegFallback), concurrency
  files,           \* the files walk() yields, in the order it yields them
  run,             \* "init", "walking", "returned", "rejected"
  fixedInFlight,   \* inFlight of the fixed limiter
  fixedQ,          \* q of the fixed limiter (item ids, head first)
  pc,              \* per item: where processFile is
  out,             \* per item: the outFile computeOut returned and not yet used
  tried,           \* history, per item: the stages attempted, with their results
  disk,            \* the files of the input and output trees
  stats,           \* stats.converted, .copied, .kept, .errors
  results,         \* stats.results
  commits          \* history: the files the run has committed

VARIABLES
  \* ---- the start of resizeImages (SpecConfig) and the flat names (SpecNames) ----
  boot,            \* the options passed in, and how far the start of the call got
  nr               \* the name resolver's inputs and results

auxVars == << boot, nr >>

runVars == << cfg, files, run, fixedInFlight, fixedQ, pc, out, tried, disk, stats,
              results, commits >>

limVars == << minConcurrency, maxConcurrency, cap, inFlight, q, sumLatency,
              samples, emfileCount, sinceTick, timerOn, tstate, age, lastTick, streak,
              threads, waited >>

vars == << limVars, runVars, auxVars >>

\* The files walk() yields in a run with the adaptive limiter, in the order it
\* yields them.
Tasks == DOMAIN tstate

\* No tick yet; no good window yet.
NoTick == [ticked |-> FALSE, capBefore |-> 0, lagOver |-> FALSE, emf |-> FALSE,
           lat |-> "none", event |-> [inFlightCap |-> 0, lagMs |-> 0]]
NoStreak == [len |-> 0, exact |-> TRUE, slen |-> 0, sexact |-> TRUE]

\* ------------------------------------------------------------------------
\* createAdaptiveLimiter
\* ------------------------------------------------------------------------

\* const initial = Math.min(2, cfg.maxConcurrency)
InitialCap(mx) == Min2(2, mx)

\* Mutant: the limiter starts at initial without clamping it.
StartCapUnclamped(mn, mx, initial) == initial

\* let cap = Math.min(max, Math.max(min, initial))
StartCap(mn, mx, initial) == Min2(mx, Max2(mn, initial))

\* avg > targetLatencyMs * 1.25, with avg = sumLatency / samples (0 without samples)
AvgAboveBackoff(sum, n) == n > 0 /\ 4 * sum > 5 * targetLatencyMs * n
\* avg <= targetLatencyMs
AvgWithinTarget(sum, n) == IF n > 0 THEN sum <= targetLatencyMs * n ELSE TRUE

Backpressure(lag, sum, n, emf) ==
  \/ lag > lagThresholdMs
  \/ emf > 0
  \/ AvgAboveBackoff(sum, n)

\* Mutants of the tick: the increase is not clamped to max; the decrease rounds
\* down; the increase needs avg < target.
TickCapNoClamp(c, mn, mx, lag, sum, n, emf) ==
  IF Backpressure(lag, sum, n, emf) THEN Max2(mn, CeilSeventy(c))
  ELSE IF n > 0 /\ AvgWithinTarget(sum, n) THEN c + 1
  ELSE c

TickCapFloor(c, mn, mx, lag, sum, n, emf) ==
  IF Backpressure(lag, sum, n, emf) THEN Max2(mn, (7 * c) \div 10)
  ELSE IF n > 0 /\ AvgWithinTarget(sum, n) THEN Min2(mx, c + 1)
  ELSE c

TickCapStrict(c, mn, mx, lag, sum, n, emf) ==
  IF Backpressure(lag, sum, n, emf) THEN Max2(mn, CeilSeventy(c))
  ELSE IF n > 0 /\ sum < targetLatencyMs * n THEN Min2(mx, c + 1)
  ELSE c

\* Mutants of the tick: the increase is tested before the backpressure; the
\* increase applies to every window with a sample and without backpressure.
TickCapIncreaseFirst(c, mn, mx, lag, sum, n, emf) ==
  IF n > 0 /\ AvgWithinTarget(sum, n) THEN Min2(mx, c + 1)
  ELSE IF Backpressure(lag, sum, n, emf) THEN Max2(mn, CeilSeventy(c))
  ELSE c

TickCapLenient(c, mn, mx, lag, sum, n, emf) ==
  IF Backpressure(lag, sum, n, emf) THEN Max2(mn, CeilSeventy(c))
  ELSE IF n > 0 THEN Min2(mx, c + 1)
  ELSE c

\* Mutant of the tick: the decrease halves the cap.
TickCapHalves(c, mn, mx, lag, sum, n, emf) ==
  IF Backpressure(lag, sum, n, emf) THEN Max2(mn, (c + 1) \div 2)
  ELSE IF n > 0 /\ AvgWithinTarget(sum, n) THEN Min2(mx, c + 1)
  ELSE c

\* The cap a tick computes:
\*   if (backpressure) cap = Math.max(min, Math.ceil(cap * 0.7));
\*   else if (samples > 0 && avg <= targetLatencyMs) cap = Math.min(max, cap + 1);
TickCap(c, mn, mx, lag, sum, n, emf) ==
  IF Backpressure(lag, sum, n, emf) THEN Max2(mn, CeilSeventy(c))
  ELSE IF n > 0 /\ AvgWithinTarget(sum, n) THEN Min2(mx, c + 1)
  ELSE c

\* Mutant: schedule puts the new entry at the head of the queue.
EnqueueFront(queue, i) == << i >> \o queue

\* q.push({ fn, ... }) in schedule, of both limiters.
Enqueue(queue, i) == Append(queue, i)

\* Mutant: the pump loop stops one short of the cap.
PumpCountUnderfill(inf, c, queue) == IF inf + 1 < c THEN Min2(c - inf - 1, Len(queue)) ELSE 0

\* Mutant: the pump loop tests inFlight <= cap.
PumpCountOverfill(inf, c, queue) == IF inf <= c THEN Min2(c - inf + 1, Len(queue)) ELSE 0

\* pump(): how many tasks the while loop dispatches.
PumpCount(inf, c, queue) == IF inf < c THEN Min2(c - inf, Len(queue)) ELSE 0

\* The state of the tasks after pump() ran on queue with counter inf.
Pumped(ts, inf, c, queue) ==
  LET k == PumpCount(inf, c, queue)
  IN [i \in Tasks |-> IF \E j \in 1 .. k : queue[j] = i THEN "running" ELSE ts[i]]

PumpedQueue(inf, c, queue) ==
  SubSeq(queue, PumpCount(inf, c, queue) + 1, Len(queue))

\* The queue wait of each task after pump() ran on queue with counter inf:
\* start is taken in schedule(), so a task pump() starts is ag[i] old already.
PumpedWait(w, ag, inf, c, queue) ==
  LET k == PumpCount(inf, c, queue)
  IN [i \in Tasks |-> IF \E j \in 1 .. k : queue[j] = i THEN ag[i] ELSE w[i]]

\* Mutant: the finalizer does not run for a task that fails.
SettledCountLeaks(inf, outcome) == IF outcome = "ok" THEN inf - 1 ELSE inf

\* .finally(() => { inFlight--; pump(); }) of the adaptive limiter.
SettledCount(inf, outcome) == inf - 1

\* Mutant: a rejected task counts as a transient error whatever its error.
TransientCountAnyError(n, outcome) == IF outcome # "ok" THEN n + 1 ELSE n

\* .catch: if (isTransientResourceError(err)) emfileCount++
TransientCount(n, outcome) == IF outcome = "transient" THEN n + 1 ELSE n

\* sumLatency += (Date.now() - start), start being the Date.now() of schedule():
\* the whole age ag of the task, the time w it waited in the queue included.
LatencySample(ag, w) == ag

\* clamp(Math.floor(cfg.targetThreads / Math.max(1, cap)), cfg.minSharpThreads,
\* cfg.maxSharpThreads)
desiredThreads(c) == clamp(targetThreads \div Max2(1, c), minSharpThreads, maxSharpThreads)

\* Mutant: the telemetry event is built before the cap is updated.
WindowEventStale(c, c1, lag) == [inFlightCap |-> c, lagMs |-> Max2(0, lag)]

\* onWindow({ inFlightCap: cap, avgLatency: avg, lagMs: Math.max(0, lagMs | 0) }),
\* c the cap before the tick and c1 the cap the tick has just computed.
WindowEvent(c, c1, lag) == [inFlightCap |-> c1, lagMs |-> Max2(0, lag)]

\* The pool size after the onWindow wrapper of resizeImages has seen the event.
ThreadsAfterWindow(th, ev) ==
  IF th.auto THEN [th EXCEPT !.pool = desiredThreads(ev.inFlightCap)] ELSE th

\* The pool size resizeImages sets before the first file is scheduled: from
\* initial = Math.min(2, cfg.maxConcurrency) with cfg.autoThreads, the pinned
\* size without.
StartThreads(auto, mx) ==
  [auto |-> auto, pool |-> IF auto THEN desiredThreads(InitialCap(mx)) ELSE pinnedThreads]

\* The start of the call and the name resolver are modelled on their own.
BootIdle ==
  boot = [via |-> "off", overwrite |-> FALSE, flatten |-> "unset", format |-> "same",
          fallbackFormat |-> "none", auto |-> FALSE, inputExists |-> TRUE,
          step |-> "off", cfgFlatten |-> FALSE, outRoot |-> FALSE, limiter |-> "none",
          error |-> "none"]
NrIdle == nr = << >>

\* The run with the fixed limiter is not part of SpecLimiter.
RunIdle ==
  /\ cfg = << >>
  /\ files = << >>
  /\ run = "off"
  /\ fixedInFlight = 0
  /\ fixedQ = << >>
  /\ pc = << >>
  /\ out = << >>
  /\ tried = << >>
  /\ disk = {}
  /\ stats = << >>
  /\ results = << >>
  /\ commits = {}

LimInit ==
  /\ RunIdle
  /\ BootIdle
  /\ NrIdle
  /\ minConcurrency \in 1 .. MaxCapCfg
  /\ maxConcurrency \in 1 .. MaxCapCfg
  /\ cap = StartCap(minConcurrency, maxConcurrency, InitialCap(maxConcurrency))
  /\ inFlight = 0
  /\ q = << >>
  /\ sumLatency = 0
  /\ samples = 0
  /\ emfileCount = 0
  /\ sinceTick = 0
  /\ timerOn = TRUE
  /\ tstate = [i \in 1 .. MaxTasks |-> "new"]
  /\ age = [i \in 1 .. MaxTasks |-> 0]
  /\ lastTick = NoTick
  /\ streak = NoStreak
  /\ \E auto \in BOOLEAN : threads = StartThreads(auto, maxConcurrency)
  /\ waited = [i \in 1 .. MaxTasks |-> 0]

\* tasks.push(limiter.schedule(...)): the next file of walk() is queued with
\* start = Date.now(), then pump().
Schedule ==
  /\ UNCHANGED << runVars, auxVars >>
  /\ timerOn
  /\ \E i \in Tasks :
       /\ tstate[i] = "new"
       /\ \A j \in 1 .. (i - 1) : tstate[j] # "new"
       /\ LET q1 == Enqueue(q, i)
              ts1 == [tstate EXCEPT ![i] = "queued"]
          IN /\ q' = PumpedQueue(inFlight, cap, q1)
             /\ inFlight' = inFlight + PumpCount(inFlight, cap, q1)
             /\ tstate' = Pumped(ts1, inFlight, cap, q1)
             /\ waited' = PumpedWait(waited, [age EXCEPT ![i] = 0], inFlight, cap, q1)
       /\ age' = [age EXCEPT ![i] = 0]
  /\ lastTick' = NoTick
  /\ UNCHANGED << minConcurrency, maxConcurrency, cap, sumLatency, samples,
                  emfileCount, sinceTick, timerOn, streak, threads >>

\* fn() settles (resolve on "ok", reject otherwise): .then / .catch record the
\* sample, .finally decrements and pumps.
\* The three callbacks run in one microtask drain; no tick can come between them.
SettleTask(i, outcome) ==
  /\ UNCHANGED << runVars, auxVars >>
  /\ tstate[i] = "running"
  /\ sumLatency' = sumLatency + LatencySample(age[i], waited[i])
  /\ samples' = samples + 1
  /\ emfileCount' = TransientCount(emfileCount, outcome)
  /\ age' = [age EXCEPT ![i] = 0]
  /\ LET ts1 == [tstate EXCEPT ![i] = "settled"]
         inf1 == SettledCount(inFlight, outcome)
     IN /\ q' = PumpedQueue(inf1, cap, q)
        /\ inFlight' = inf1 + PumpCount(inf1, cap, q)
        /\ tstate' = Pumped(ts1, inf1, cap, q)
        /\ waited' = PumpedWait([waited EXCEPT ![i] = 0], age, inf1, cap, q)
  /\ lastTick' = NoTick
  /\ UNCHANGED << minConcurrency, maxConcurrency, cap, sinceTick, timerOn,
                  streak, threads >>

\* The outcomes of a task: resolved, rejected with a content error, rejected
\* with a transient resource error.
Outcomes == {"ok", "content", "transient"}

Settle == \E i \in Tasks, outcome \in Outcomes : SettleTask(i, outcome)

\* One unit of time passes.
Advance ==
  /\ UNCHANGED << runVars, auxVars >>
  /\ timerOn
  /\ sinceTick < windowMs + lagThresholdMs + MaxLagOver
  /\ \A i \in Tasks : tstate[i] \in {"queued", "running"} => age[i] < MaxAge
  /\ sinceTick' = sinceTick + 1
  /\ age' = [i \in Tasks |-> IF tstate[i] \in {"queued", "running"} THEN age[i] + 1 ELSE age[i]]
  /\ lastTick' = NoTick
  /\ UNCHANGED << minConcurrency, maxConcurrency, cap, inFlight, q, sumLatency,
                  samples, emfileCount, timerOn, tstate, streak, threads, waited >>

\* Is this window one of the claim's good windows: avg <= target, no backpressure.
GoodWindow(lag, sum, n, emf) == ~Backpressure(lag, sum, n, emf) /\ AvgWithinTarget(sum, n)

\* How the window's average compares with the target.
LatClass(sum, n) ==
  IF n = 0 THEN "none"
  ELSE IF AvgWithinTarget(sum, n) THEN "within"
  ELSE IF AvgAboveBackoff(sum, n) THEN "above"
  ELSE "between"

\* The consecutive good windows up to this tick, in blocks of at most three:
\* len of them so far, exact iff each raised the cap to min(max, cap + 1); slen
\* and sexact are the same for the good windows that had a sample.
NextStreak(s, c, c1, mx, lag, sum, n, emf) ==
  IF ~GoodWindow(lag, sum, n, emf) THEN NoStreak
  ELSE LET raised == (c1 = Min2(mx, c + 1))
           g == IF s.len = 3 THEN [s EXCEPT !.len = 0, !.exact = TRUE] ELSE s
           h == IF s.slen = 3 THEN [g EXCEPT !.slen = 0, !.sexact = TRUE] ELSE g
       IN IF n > 0
          THEN [len |-> h.len + 1, exact |-> (h.exact /\ raised),
                slen |-> h.slen + 1, sexact |-> (h.sexact /\ raised)]
          ELSE [len |-> h.len + 1, exact |-> (h.exact /\ raised),
                slen |-> 0, sexact |-> TRUE]

\* The setInterval callback.
Tick ==
  /\ UNCHANGED << runVars, auxVars >>
  /\ timerOn
  /\ sinceTick >= windowMs
  /\ LET lagMs == sinceTick - windowMs
         cap1 == TickCap(cap, minConcurrency, maxConcurrency, lagMs, sumLatency,
                         samples, emfileCount)
         ev == WindowEvent(cap, cap1, lagMs)
     IN /\ cap' = cap1
        /\ lastTick' = [ticked |-> TRUE, capBefore |-> cap,
                        lagOver |-> (lagMs > lagThresholdMs),
                        emf |-> (emfileCount > 0),
                        lat |-> LatClass(sumLatency, samples),
                        event |-> ev]
        /\ threads' = ThreadsAfterWindow(threads, ev)
        /\ waited' = PumpedWait(waited, age, inFlight, cap1, q)
        /\ streak' = NextStreak(streak, cap, cap1, maxConcurrency, lagMs, sumLatency,
                                samples, emfileCount)
        /\ q' = PumpedQueue(inFlight, cap1, q)
        /\ inFlight' = inFlight + PumpCount(inFlight, cap1, q)
        /\ tstate' = Pumped(tstate, inFlight, cap1, q)
  /\ sumLatency' = 0
  /\ samples' = 0
  /\ emfileCount' = 0
  /\ sinceTick' = 0
  /\ UNCHANGED << minConcurrency, maxConcurrency, timerOn, age >>

\* await Promise.allSettled(tasks); dispose()
Dispose ==
  /\ UNCHANGED << runVars, auxVars >>
  /\ timerOn
  /\ \A i \in Tasks : tstate[i] = "settled"
  /\ timerOn' = FALSE
  /\ lastTick' = NoTick
  /\ UNCHANGED << minConcurrency, maxConcurrency, cap, inFlight, q, sumLatency,
                  samples, emfileCount, sinceTick, tstate, age, streak, threads,
                  waited >>

LimNext == Schedule \/ Settle \/ Advance \/ Tick \/ Dispose

SpecLimiter == LimInit /\ [][LimNext]_vars

\* walk() throws before it yields the next file (readdir of a directory or
\* mkdir of an output directory fails): the for await loop throws and
\* resizeImages rejects. Nothing catches the error, so the lines after the
\* loop, dispose() among them, are not reached; the tasks already scheduled
\* and the timer go on.
WalkFails ==
  /\ UNCHANGED << runVars, auxVars >>
  /\ timerOn
  /\ \E i \in Tasks : tstate[i] = "new"
  /\ tstate' = [i \in Tasks |-> IF tstate[i] = "new" THEN "unwalked" ELSE tstate[i]]
  /\ lastTick' = NoTick
  /\ UNCHANGED << minConcurrency, maxConcurrency, cap, inFlight, q, sumLatency,
                  samples, emfileCount, sinceTick, timerOn, age, streak, threads,
                  waited >>

WalkNext == LimNext \/ WalkFails

\* The adaptive run with a walk that may fail.
SpecWalk == LimInit /\ [][WalkNext]_vars

\* A run with more files than the cap admits: minConcurrency 1 or 2,
\* maxConcurrency 1 or MaxCapCfg, cfg.autoThreads on.
BurstInit ==
  /\ RunIdle
  /\ BootIdle
  /\ NrIdle
  /\ minConcurrency \in 1 .. 2
  /\ maxConcurrency \in {1, MaxCapCfg}
  /\ cap = StartCap(minConcurrency, maxConcurrency, InitialCap(maxConcurrency))
  /\ inFlight = 0
  /\ q = << >>
  /\ sumLatency = 0
  /\ samples = 0
  /\ emfileCount = 0
  /\ sinceTick = 0
  /\ timerOn = TRUE
  /\ tstate = [i \in 1 .. BurstTasks |-> "new"]
  /\ age = [i \in 1 .. BurstTasks |-> 0]
  /\ lastTick = NoTick
  /\ streak = NoStreak
  /\ threads = StartThreads(TRUE, maxConcurrency)
  /\ waited = [i \in 1 .. BurstTasks |-> 0]

SpecBurst == BurstInit /\ [][LimNext]_vars

\* The adaptive limiter is not part of Spec.
LimIdle ==
  /\ minConcurrency = 0
  /\ maxConcurrency = 0
  /\ cap = 0
  /\ inFlight = 0
  /\ q = << >>
  /\ sumLatency = 0
  /\ samples = 0
  /\ emfileCount = 0
  /\ sinceTick = 0
  /\ timerOn = FALSE
  /\ tstate = << >>
  /\ age = << >>
  /\ lastTick = NoTick
  /\ streak = NoStreak
  /\ threads = [auto |-> FALSE, pool |-> 0]
  /\ waited = << >>

\* ------------------------------------------------------------------------
\* resizeImages with the fixed limiter: files, formats, paths
\* ------------------------------------------------------------------------
Items == 1 .. MaxItems

\* The input tree the files are drawn from, in readdir order: one directory,
\* one base name. a/x.jpg and a/x.png map to one output name under a fixed
\* format, .bmp is in the allow-set and has no same-format encoder, .txt is
\* outside the allow-set.
Universe ==
  << [dir |-> "a", base |-> "x", ext |-> ".jpg"],
     [dir |-> "a", base |-> "x", ext |-> ".png"],
     [dir |-> "a", base |-> "x", ext |-> ".bmp"],
     [dir |-> "a", base |-> "x", ext |-> ".txt"] >>

DEFAULT_ALLOW_EXT ==
  {".jpg", ".jpeg", ".png", ".webp", ".avif", ".heic", ".heif", ".tif", ".tiff",
   ".bmp", ".gif"}

ENCODE_SAME_OK ==
  {".jpg", ".jpeg", ".png", ".webp", ".avif", ".heif", ".heic", ".tif", ".tiff"}

\* The errors injected into codec and file-system operations: one resource
\* exhaustion code and one content error.
InjectedErrors == {"ENOSPC", "corrupt"}

\* isTransientResourceError, on the error's code.
isTransientResourceError(err) == err \in {"EMFILE", "ENFILE", "ENOSPC", "ENOMEM"}

normalizeFormat(fmt) ==
  IF fmt = "same" THEN [mode |-> "same", key |-> "", outExt |-> ""]
  ELSE IF fmt \in {"jpg", "jpeg"} THEN [mode |-> "fixed", key |-> "jpeg", outExt |-> ".jpg"]
  ELSE IF fmt = "png" THEN [mode |-> "fixed", key |-> "png", outExt |-> ".png"]
  ELSE IF fmt = "webp" THEN [mode |-> "fixed", key |-> "webp", outExt |-> ".webp"]
  ELSE [mode |-> "invalid", key |-> "", outExt |-> ""]

encoderForExt(ext) ==
  IF ext \in {".jpg", ".jpeg"} THEN "jpeg"
  ELSE IF ext = ".png" THEN "png"
  ELSE IF ext = ".webp" THEN "webp"
  ELSE IF ext = ".avif" THEN "avif"
  ELSE IF ext \in {".heif", ".heic"} THEN "heif"
  ELSE IF ext \in {".tif", ".tiff"} THEN "tiff"
  ELSE ""

\* const fmt = normalizeFormat(cfg.format); const fb = cfg.fallbackFormat ? ... : null
Fmt == normalizeFormat(cfg.format)
HasFb == cfg.fallbackFormat # "none"
Fb == normalizeFormat(cfg.fallbackFormat)

\* cfg.flatten && !cfg.overwrite
Flat == cfg.flatten /\ ~cfg.overwrite

NoPath == [root |-> "", dir |-> "", base |-> "", hash |-> "", n |-> 0, ext |-> "",
           tmp |-> "", owner |-> 0]

\* The path of a file of the input tree.
SrcPath(f) == [root |-> "in", dir |-> f.dir, base |-> f.base, hash |-> "", n |-> 0,
               ext |-> f.ext, tmp |-> "", owner |-> 0]

exists(d, p) == \E e \in d : e.path = p

\* makeFlatName with the hash strategy: base~<sha1 of relDir/base>, the digest
\* standing for its input.
makeFlatName(f, outExt) ==
  [root |-> "out", dir |-> "", base |-> f.base, hash |-> f.dir, n |-> 0,
   ext |-> outExt, tmp |-> "", owner |-> 0]

\* Mutant: the resolver returns the computed name without probing.
uniquifyNoProbe(d, name) == name

\* uniquify: the name itself, else stem~1, stem~2, ... : the first that does
\* not exist on the disk d.
uniquify(d, name) ==
  LET free == {k \in 0 .. (2 * MaxItems) : ~exists(d, [name EXCEPT !.n = k])}
      k0 == CHOOSE k \in free : \A j \in free : k <= j
  IN [name EXCEPT !.n = k0]

\* computeOut
computeOut(f, outExt, d) ==
  IF Flat THEN uniquify(d, makeFlatName(f, outExt))
  ELSE [root |-> IF cfg.overwrite THEN "in" ELSE "out", dir |-> f.dir,
        base |-> f.base, hash |-> "", n |-> 0, ext |-> outExt, tmp |-> "", owner |-> 0]

\* outFile + `.tmp-${pid}-${random}` and outFile + `.sips-tmp-...`: a name of
\* its own for every attempt.
TmpPath(o, i, stage) == [o EXCEPT !.tmp = stage, !.owner = i]

Put(d, e) == {x \in d : x.path # e.path} \cup {e}
Remove(d, p) == {x \in d : x.path # p}

\* ------------------------------------------------------------------------
\* processFile: the stages of the fallback chain
\* ------------------------------------------------------------------------

\* Mutants: CHECK_EXT lets every file through to the encoder; with the format
\* "same" a file without an encoder is copied or kept whatever the fallback
\* format.
FirstStageNoExtCheck(f) ==
  IF Fmt.mode = "same" /\ f.ext \notin ENCODE_SAME_OK /\ ~HasFb
  THEN (IF cfg.overwrite THEN "keep" ELSE "skipcopy")
  ELSE "primary"

FirstStageIgnoresFallback(f) ==
  IF f.ext \notin DEFAULT_ALLOW_EXT
  THEN (IF cfg.overwrite THEN "keep" ELSE "skipcopy")
  ELSE IF Fmt.mode = "same" /\ f.ext \notin ENCODE_SAME_OK
  THEN (IF cfg.overwrite THEN "keep" ELSE "skipcopy")
  ELSE "primary"

\* Where processFile starts: CHECK_EXT and the choice of the primary target.
FirstStage(f) ==
  IF f.ext \notin DEFAULT_ALLOW_EXT
  THEN (IF cfg.overwrite THEN "keep" ELSE "skipcopy")
  ELSE IF Fmt.mode = "same" /\ f.ext \notin ENCODE_SAME_OK /\ ~HasFb
  THEN (IF cfg.overwrite THEN "keep" ELSE "skipcopy")
  ELSE "primary"

\* The primary target.
Target(f) ==
  IF Fmt.mode = "same"
  THEN (IF f.ext \notin ENCODE_SAME_OK THEN Fb
        ELSE [mode |-> "same", key |-> encoderForExt(f.ext), outExt |-> f.ext])
  ELSE Fmt

\* wantJpeg
wantJpeg(f) ==
  \/ (Fmt.mode = "fixed" /\ Fmt.key = "jpeg")
  \/ (Fmt.mode = "same" /\ f.ext \notin ENCODE_SAME_OK /\ (~HasFb \/ Fb.key = "jpeg"))
  \/ (HasFb /\ Fb.key = "jpeg")

\* (trySipsHeic && isHeicLike && wantJpeg) || (trySipsJpeg && isJpegLike && wantJpeg)
SipsApplies(f) ==
  /\ cfg.sips
  /\ f.ext \in {".heic", ".heif", ".jpg", ".jpeg"}
  /\ wantJpeg(f)

\* fb && (fmt.mode !== 'fixed' || fb.key !== fmt.key || fb.outExt !== fmt.outExt)
FbApplies ==
  HasFb /\ (Fmt.mode # "fixed" \/ Fb.key # Fmt.key \/ Fb.outExt # Fmt.outExt)

\* Mutant: after a failed conversion the original is kept in every mode.
AfterFbAlwaysKeeps == "keepfail"

\* After the chain: if (!cfg.overwrite) copy else kept.
AfterFb == IF cfg.overwrite THEN "keepfail" ELSE "copy"
\* Mutant: after the external tool the chain goes straight to copy / keep.
AfterSipsSkipsFb == AfterFb

AfterSips == IF FbApplies THEN "fb" ELSE AfterFb
AfterPrimary(f) == IF SipsApplies(f) THEN "sips" ELSE AfterSips

\* The extension computeOut is called with at each stage.
StageExt(f, stage) ==
  IF stage = "primary"
  THEN (IF Target(f).outExt = "" THEN f.ext ELSE Target(f).outExt)
  ELSE IF stage = "fb" THEN Fb.outExt
  ELSE IF stage = "sips" THEN ".jpg"
  ELSE f.ext

\* The outFile of item i at its current stage: what the probe stored when
\* flattening, else computed without touching the disk.
OutFile(i) ==
  IF Flat THEN out[i] ELSE computeOut(files[i], StageExt(files[i], pc[i]), disk)

\* ------------------------------------------------------------------------
\* The fixed limiter
\* ------------------------------------------------------------------------
\* Mutant: the pump loop tests inFlight + 1 < fixed.
FixedPumpCountOffByOne(inf, queue) ==
  IF inf + 1 < cfg.concurrency THEN Min2(cfg.concurrency - inf - 1, Len(queue)) ELSE 0

\* pump(): how many tasks the while loop dispatches (inFlight < fixed && q.length).
FixedPumpCount(inf, queue) ==
  IF inf < cfg.concurrency THEN Min2(cfg.concurrency - inf, Len(queue)) ELSE 0

\* pc after pump(): the dispatched items start processFile.
FixedPumped(pcs, inf, queue) ==
  LET k == FixedPumpCount(inf, queue)
  IN [i \in Items |->
        IF \E j \in 1 .. k : queue[j] = i THEN FirstStage(files[i]) ELSE pcs[i]]

\* Item i settles with pc value st ("resolved" or "rejected"):
\* .finally(() => { inFlight--; pump(); })
Finish(i, st) ==
  LET inf1 == fixedInFlight - 1
      pcs == [pc EXCEPT ![i] = st]
  IN /\ pc' = FixedPumped(pcs, inf1, fixedQ)
     /\ fixedInFlight' = inf1 + FixedPumpCount(inf1, fixedQ)
     /\ fixedQ' = SubSeq(fixedQ, FixedPumpCount(inf1, fixedQ) + 1, Len(fixedQ))

\* stats.<counter>++; onFile({...})
Count(counter, i, action, via) ==
  /\ stats' = [stats EXCEPT ![counter] = @ + 1]
  /\ results' = Append(results, [item |-> i, action |-> action, via |-> via])

Log(i, stage, res) == tried' = [tried EXCEPT ![i] = Append(@, [stage |-> stage, res |-> res])]

\* ------------------------------------------------------------------------
\* resizeImages
\* ------------------------------------------------------------------------
RunInit ==
  /\ LimIdle
  /\ BootIdle
  /\ NrIdle
  /\ cfg \in [overwrite : BOOLEAN, flatten : BOOLEAN, format : {"same", "jpeg"},
              fallbackFormat : {"none", "jpeg", "png"}, sips : BOOLEAN,
              concurrency : 1 .. MaxFixed, skipDSStore : {TRUE},
              pruneDSStore : {FALSE}]
  /\ \E idx \in [Items -> 1 .. Len(Universe)] :
       /\ \A i \in Items, j \in Items : i < j => idx[i] < idx[j]
       /\ files = [i \in Items |-> Universe[idx[i]]]
  /\ run = "init"
  /\ fixedInFlight = 0
  /\ fixedQ = << >>
  /\ pc = [i \in Items |-> "new"]
  /\ out = [i \in Items |-> NoPath]
  /\ tried = [i \in Items |-> << >>]
  /\ disk = {[path |-> SrcPath(files[i]), item |-> i, kind |-> "orig", whole |-> TRUE] :
               i \in Items}
  /\ stats = [converted |-> 0, copied |-> 0, kept |-> 0, errors |-> 0]
  /\ results = << >>
  /\ commits = {}

\* Mutant: FS prep without the flatten / overwrite check.
StartNoValidation ==
  /\ UNCHANGED << limVars, auxVars >>
  /\ run = "init"
  /\ run' = "walking"
  /\ UNCHANGED << cfg, files, fixedInFlight, fixedQ, pc, out, tried, disk, stats,
                  results, commits >>

\* FS prep: flatten with overwrite throws; else the output root is created.
Start ==
  /\ UNCHANGED << limVars, auxVars >>
  /\ run = "init"
  /\ run' = IF cfg.flatten /\ cfg.overwrite THEN "rejected" ELSE "walking"
  /\ UNCHANGED << cfg, files, fixedInFlight, fixedQ, pc, out, tried, disk, stats,
                  results, commits >>

\* tasks.push(limiter.schedule(() => processFile(...))) for the next file of walk()
Walk ==
  /\ UNCHANGED << limVars, auxVars >>
  /\ run = "walking"
  /\ \E i \in Items :
       /\ pc[i] = "new"
       /\ \A j \in 1 .. (i - 1) : pc[j] # "new"
       /\ LET q1 == Enqueue(fixedQ, i)
              pcs == [pc EXCEPT ![i] = "queued"]
          IN /\ pc' = FixedPumped(pcs, fixedInFlight, q1)
             /\ fixedInFlight' = fixedInFlight + FixedPumpCount(fixedInFlight, q1)
             /\ fixedQ' = SubSeq(q1, FixedPumpCount(fixedInFlight, q1) + 1, Len(q1))
  /\ UNCHANGED << cfg, files, run, out, tried, disk, stats, results, commits >>

\* await computeOut(...) when flattening: uniquify probes the disk.
Probe ==
  /\ UNCHANGED << limVars, auxVars >>
  /\ run = "walking"
  /\ Flat
  /\ \E i \in Items :
       /\ pc[i] \in {"primary", "sips", "fb", "copy", "skipcopy"}
       /\ out[i] = NoPath
       /\ out' = [out EXCEPT ![i] = computeOut(files[i], StageExt(files[i], pc[i]), disk)]
  /\ UNCHANGED << cfg, files, run, fixedInFlight, fixedQ, pc, tried, disk, stats,
                  results, commits >>

\* Mutant: the original is unlinked after every successful encode.
EncodeCommittedAlwaysUnlinks(d, o, i, unlinked) ==
  Remove(Put(d, [path |-> o, item |-> i, kind |-> "enc", whole |-> TRUE]),
         SrcPath(files[i]))

\* The disk after a successful doEncode of item i to o: the temporary file is
\* renamed to o; in overwrite mode the original is then unlinked when the
\* extension changed (its failure is swallowed).
EncodeCommitted(d, o, i, unlinked) ==
  LET d1 == Put(d, [path |-> o, item |-> i, kind |-> "enc", whole |-> TRUE])
  IN IF unlinked THEN Remove(d1, SrcPath(files[i])) ELSE d1

\* Mutant: the encoder writes straight to outFile.
EncodeFailedInPlace(d, o, i, stage, rmOk) ==
  IF rmOk THEN Remove(d, o)
  ELSE Put(d, [path |-> o, item |-> i, kind |-> "enc", whole |-> FALSE])

\* The disk after a failed doEncode: catch (e) { try { rm(tmpFile) } catch {}; throw e }
EncodeFailed(d, o, i, stage, rmOk) ==
  IF rmOk THEN d
  ELSE Put(d, [path |-> TmpPath(o, i, stage), item |-> i, kind |-> "tmp", whole |-> FALSE])

\* Mutant: a failed primary encode always falls through to the fallback stages.
PrimaryRethrowsNever(res) == FALSE

\* catch (err) { if (isTransientResourceError(err)) { stats.errors++; ...; throw err } }
PrimaryRethrows(res) == isTransientResourceError(res)

\* doEncode(target) and doEncode(fb), with the catch blocks around them.
Encode ==
  /\ UNCHANGED << limVars, auxVars >>
  /\ run = "walking"
  /\ \E i \in Items, res \in {"ok"} \cup InjectedErrors, rmOk \in BOOLEAN,
        unlinkOk \in BOOLEAN :
       /\ pc[i] \in {"primary", "fb"}
       /\ Flat => out[i] # NoPath
       /\ LET f == files[i]
              stage == pc[i]
              o == OutFile(i)
              unlinks == cfg.overwrite /\ o # SrcPath(f) /\ o.ext # f.ext
          IN /\ (res = "ok") => rmOk
             /\ ~(res = "ok" /\ unlinks) => unlinkOk
             /\ Log(i, stage, res)
             /\ out' = [out EXCEPT ![i] = NoPath]
             /\ IF res = "ok"
                THEN /\ disk' = EncodeCommitted(disk, o, i, unlinks /\ unlinkOk)
                     /\ Count("converted", i, "converted", "")
                     /\ commits' = commits \cup {[item |-> i, path |-> o, kind |-> "enc"]}
                     /\ Finish(i, "resolved")
                ELSE /\ disk' = EncodeFailed(disk, o, i, stage, rmOk)
                     /\ commits' = commits
                     /\ IF stage = "primary" /\ PrimaryRethrows(res)
                        THEN /\ Count("errors", i, "error", "")
                             /\ Finish(i, "rejected")
                        ELSE /\ pc' = [pc EXCEPT ![i] = IF stage = "primary"
                                                         THEN AfterPrimary(f) ELSE AfterFb]
                             /\ UNCHANGED << stats, results, fixedInFlight, fixedQ >>
  /\ UNCHANGED << cfg, files, run >>

\* The sips stages: sipsConvert to a temporary file, rename; every failure is
\* caught and logged, and nothing removes the temporary file.
Sips ==
  /\ UNCHANGED << limVars, auxVars >>
  /\ run = "walking"
  /\ \E i \in Items, res \in {"ok"} \cup InjectedErrors, tmpLeft \in BOOLEAN :
       /\ pc[i] = "sips"
       /\ Flat => out[i] # NoPath
       /\ (res = "ok") => ~tmpLeft
       /\ LET o == OutFile(i)
          IN /\ Log(i, "sips", res)
             /\ out' = [out EXCEPT ![i] = NoPath]
             /\ IF res = "ok"
                THEN /\ disk' = Put(disk, [path |-> o, item |-> i, kind |-> "sips",
                                           whole |-> TRUE])
                     /\ Count("converted", i, "converted", "sips")
                     /\ commits' = commits \cup {[item |-> i, path |-> o, kind |-> "sips"]}
                     /\ Finish(i, "resolved")
                ELSE /\ disk' = IF tmpLeft
                                THEN Put(disk, [path |-> TmpPath(o, i, "sips"), item |-> i,
                                                kind |-> "tmp", whole |-> FALSE])
                                ELSE disk
                     /\ commits' = commits
                     /\ pc' = [pc EXCEPT ![i] = AfterSips]
                     /\ UNCHANGED << stats, results, fixedInFlight, fixedQ >>
  /\ UNCHANGED << cfg, files, run >>

\* A copy that fails: the CHECK_EXT / RESOLVE_TARGET copies let the error escape
\* processFile; the copy at the end of the chain counts it and rethrows.
CopyFailed(i, stage) ==
  /\ Log(i, stage, "EACCES")
  /\ out' = [out EXCEPT ![i] = NoPath]
  /\ commits' = commits
  /\ IF stage = "copy"
     THEN Count("errors", i, "error", "")
     ELSE UNCHANGED << stats, results >>
  /\ Finish(i, "rejected")

\* copyAsIs up to the point where copyFile has opened the destination; before
\* it, the copy at the end of the chain removes a zero-byte outFile.
CopyBegin ==
  /\ UNCHANGED << limVars, auxVars >>
  /\ run = "walking"
  /\ \E i \in Items, ok \in BOOLEAN, zero \in BOOLEAN :
       /\ pc[i] \in {"skipcopy", "copy"}
       /\ Flat => out[i] # NoPath
       /\ LET o == OutFile(i)
              stale == pc[i] = "copy" /\ \E e \in disk : e.path = o /\ ~e.whole
              d1 == IF stale /\ zero THEN Remove(disk, o) ELSE disk
          IN /\ ~stale => zero
             /\ IF ok
                THEN /\ disk' = Put(d1, [path |-> o, item |-> i, kind |-> "copy",
                                         whole |-> FALSE])
                     /\ pc' = [pc EXCEPT ![i] = IF pc[i] = "copy" THEN "copying"
                                                ELSE "skipcopying"]
                     /\ UNCHANGED << out, tried, stats, results, commits, fixedInFlight,
                                     fixedQ >>
                ELSE /\ disk' = d1
                     /\ CopyFailed(i, pc[i])
  /\ UNCHANGED << cfg, files, run >>

\* copyFile ends: the destination is complete, or the copy failed and the
\* destination was removed or was left as it is.
CopyEnd ==
  /\ UNCHANGED << limVars, auxVars >>
  /\ run = "walking"
  /\ \E i \in Items, ok \in BOOLEAN, cleaned \in BOOLEAN :
       /\ pc[i] \in {"skipcopying", "copying"}
       /\ ok => cleaned
       /\ LET o == OutFile(i)
              stage == IF pc[i] = "copying" THEN "copy" ELSE "skipcopy"
              mine == \E e \in disk : e.path = o /\ e.item = i /\ e.kind = "copy"
          IN IF ok
             THEN /\ disk' = IF mine
                             THEN Put(disk, [path |-> o, item |-> i, kind |-> "copy",
                                             whole |-> TRUE])
                             ELSE disk
                  /\ Log(i, stage, "ok")
                  /\ out' = [out EXCEPT ![i] = NoPath]
                  /\ Count("copied", i, "copied", "")
                  /\ commits' = commits \cup {[item |-> i, path |-> o, kind |-> "copy"]}
                  /\ Finish(i, "resolved")
             ELSE /\ disk' = IF mine /\ cleaned THEN Remove(disk, o) ELSE disk
                  /\ CopyFailed(i, stage)
  /\ UNCHANGED << cfg, files, run >>

\* stats.kept++ in overwrite mode: nothing is written.
Keep ==
  /\ UNCHANGED << limVars, auxVars >>
  /\ run = "walking"
  /\ \E i \in Items :
       /\ pc[i] \in {"keep", "keepfail"}
       /\ Log(i, pc[i], "ok")
       /\ Count("kept", i, "kept", "")
       /\ Finish(i, "resolved")
  /\ UNCHANGED << cfg, files, run, out, disk, commits >>

\* entry.name === '.DS_Store', for a path of the input or the output tree.
IsDSStore(p) ==
  p.base = ".DS_Store" /\ p.ext = "" /\ p.hash = "" /\ p.n = 0 /\ p.tmp = ""

\* pruneDSStore(inputAbs) and pruneDSStore(outputAbs): every .DS_Store file of
\* both trees is removed, except the ones in left, whose rm failed (the
\* failure is swallowed).
pruneDSStore(d, left) == {e \in d : ~IsDSStore(e.path)} \cup left

\* await Promise.allSettled(tasks); every rejected task adds one to stats.errors;
\* the optional .DS_Store cleanup; return stats.
Drain ==
  /\ UNCHANGED << limVars, auxVars >>
  /\ run = "walking"
  /\ \A i \in Items : pc[i] \in {"resolved", "rejected"}
  /\ stats' = [stats EXCEPT !.errors = @ + Cardinality({i \in Items : pc[i] = "rejected"})]
  /\ IF cfg.pruneDSStore
     THEN \E left \in SUBSET {e \in disk : IsDSStore(e.path)} :
            disk' = pruneDSStore(disk, left)
     ELSE disk' = disk
  /\ run' = "returned"
  /\ UNCHANGED << cfg, files, fixedInFlight, fixedQ, pc, out, tried, results,
                  commits >>

Next == Start \/ Walk \/ Probe \/ Encode \/ Sips \/ CopyBegin \/ CopyEnd \/ Keep \/ Drain

Spec == RunInit /\ [][Next]_vars

\* The file macOS leaves in a directory; path.extname('.DS_Store') is ''.
DSStoreFile == [dir |-> "a", base |-> ".DS_Store", ext |-> ""]

\* A run with skipDSStore off over a tree that holds a/.DS_Store: walk()
\* yields it first, as a work item like any other file; the cleanup is on or
\* off.
PruneInit ==
  /\ LimIdle
  /\ BootIdle
  /\ NrIdle
  /\ cfg \in [overwrite : BOOLEAN, flatten : BOOLEAN, format : {"same", "jpeg"},
              fallbackFormat : {"none", "jpeg", "png"}, sips : BOOLEAN,
              concurrency : 1 .. MaxFixed, skipDSStore : {FALSE},
              pruneDSStore : BOOLEAN]
  /\ \E idx \in [Items -> 0 .. Len(Universe)] :
       /\ idx[1] = 0
       /\ \A i \in Items, j \in Items : i < j => idx[i] < idx[j]
       /\ files = [i \in Items |-> IF i = 1 THEN DSStoreFile ELSE Universe[idx[i]]]
  /\ run = "init"
  /\ fixedInFlight = 0
  /\ fixedQ = << >>
  /\ pc = [i \in Items |-> "new"]
  /\ out = [i \in Items |-> NoPath]
  /\ tried = [i \in Items |-> << >>]
  /\ disk = {[path |-> SrcPath(files[i]), item |-> i, kind |-> "orig", whole |-> TRUE] :
               i \in Items}
  /\ stats = [converted |-> 0, copied |-> 0, kept |-> 0, errors |-> 0]
  /\ results = << >>
  /\ commits = {}

SpecPrune == PruneInit /\ [][Next]_vars

\* ------------------------------------------------------------------------
\* Both limiters under fair scheduling (FairSpec)
\* ------------------------------------------------------------------------
\* The options of a run with the adaptive limiter, maxConcurrency 0 included:
\* nothing in resizeImages rejects it. cfg.autoThreads is on.
LimLiveInit ==
  /\ RunIdle
  /\ BootIdle
  /\ NrIdle
  /\ minConcurrency \in 1 .. MaxCapCfg
  /\ maxConcurrency \in 0 .. MaxCapCfg
  /\ cap = StartCap(minConcurrency, maxConcurrency, InitialCap(maxConcurrency))
  /\ inFlight = 0
  /\ q = << >>
  /\ sumLatency = 0
  /\ samples = 0
  /\ emfileCount = 0
  /\ sinceTick = 0
  /\ timerOn = TRUE
  /\ tstate = [i \in 1 .. MaxTasks |-> "new"]
  /\ age = [i \in 1 .. MaxTasks |-> 0]
  /\ lastTick = NoTick
  /\ streak = NoStreak
  /\ threads = StartThreads(TRUE, maxConcurrency)
  /\ waited = [i \in 1 .. MaxTasks |-> 0]

\* The options of a run with the fixed limiter, concurrency 0 included
\* (cfg.concurrency ?? ... keeps a 0); the chain is the longest one: format
\* jpeg, sips on, fallback format png; flatten with overwrite is left out.
RunLiveInit ==
  /\ LimIdle
  /\ BootIdle
  /\ NrIdle
  /\ cfg \in [overwrite : BOOLEAN, flatten : BOOLEAN, format : {"jpeg"},
              fallbackFormat : {"png"}, sips : {TRUE}, concurrency : 0 .. MaxFixed,
              skipDSStore : {TRUE}, pruneDSStore : {FALSE}]
  /\ ~(cfg.flatten /\ cfg.overwrite)
  /\ \E idx \in [Items -> 1 .. Len(Universe)] :
       /\ \A i \in Items, j \in Items : i < j => idx[i] < idx[j]
       /\ files = [i \in Items |-> Universe[idx[i]]]
  /\ run = "init"
  /\ fixedInFlight = 0
  /\ fixedQ = << >>
  /\ pc = [i \in Items |-> "new"]
  /\ out = [i \in Items |-> NoPath]
  /\ tried = [i \in Items |-> << >>]
  /\ disk = {[path |-> SrcPath(files[i]), item |-> i, kind |-> "orig", whole |-> TRUE] :
               i \in Items}
  /\ stats = [converted |-> 0, copied |-> 0, kept |-> 0, errors |-> 0]
  /\ results = << >>
  /\ commits = {}

LiveInit == LimLiveInit \/ RunLiveInit

\* The steps of the adaptive run, and the steps of the fixed run.
AdaptiveStep == run = "off" /\ LimNext
FixedStep == run # "off" /\ Next

\* What the event loop does on its own once it can: the walk submits the next
\* file, a running operation terminates and its callbacks run, the drain
\* resumes once every task has settled. The timer is not needed for progress.
LimProgress == run = "off" /\ (Schedule \/ Settle \/ Dispose)

LiveNext == AdaptiveStep \/ FixedStep

FairSpec ==
  /\ LiveInit
  /\ [][LiveNext]_vars
  /\ WF_vars(LimProgress)
  /\ WF_vars(FixedStep)

\* ------------------------------------------------------------------------
\* The start of resizeImages, called directly or through the CLI (SpecConfig)
\* ------------------------------------------------------------------------
\* The formats a caller may ask for: the default, a supported one, an
\* unsupported one.
FormatOptions == {"same", "jpeg", "bogus"}
FallbackOptions == {"none", "png", "bogus"}

\* DEFAULTS.flatten
DefaultFlatten == TRUE

\* No limiter, timer or queue exists while the call starts.
ConfigInit ==
  /\ LimIdle
  /\ RunIdle
  /\ NrIdle
  /\ boot \in [via : {"api", "cli"}, overwrite : BOOLEAN,
               flatten : {"unset", "true", "false"}, format : FormatOptions,
               fallbackFormat : FallbackOptions, auto : BOOLEAN,
               inputExists : BOOLEAN, step : {"cli", "called"},
               cfgFlatten : {FALSE}, outRoot : {FALSE}, limiter : {"none"},
               error : {"none"}]
  /\ boot.step = (IF boot.via = "cli" THEN "cli" ELSE "called")

\* cli.cjs: effectiveFlatten = (flattenFlag === undefined) ? true : !!flattenFlag
CliEffectiveFlatten(flag) == flag # "false"

\* cli.cjs main: --overwrite with the effective flatten exits with status 1 before
\* resizeImages is called; else resizeImages(options), flatten left out of the
\* options when the flag was not given.
CliMain ==
  /\ boot.step = "cli"
  /\ boot' = IF boot.overwrite /\ CliEffectiveFlatten(boot.flatten)
             THEN [boot EXCEPT !.step = "exit1", !.error = "conflict"]
             ELSE [boot EXCEPT !.step = "called"]
  /\ UNCHANGED << limVars, runVars, nr >>

\* const cfg = { ...DEFAULTS, ...options };
\* if (options && options.flatten === undefined) cfg.flatten = DEFAULTS.flatten;
MergedFlatten(opt) == IF opt = "unset" THEN DefaultFlatten ELSE opt = "true"

Merge ==
  /\ boot.step = "called"
  /\ boot' = [boot EXCEPT !.step = "merged", !.cfgFlatten = MergedFlatten(boot.flatten)]
  /\ UNCHANGED << limVars, runVars, nr >>

\* FS prep: the input must exist; flatten with overwrite throws; the output
\* root is created unless overwriting.
FsPrep ==
  /\ boot.step = "merged"
  /\ boot' = IF ~boot.inputExists
             THEN [boot EXCEPT !.step = "threw", !.error = "input"]
             ELSE IF boot.cfgFlatten /\ boot.overwrite
             THEN [boot EXCEPT !.step = "threw", !.error = "conflict"]
             ELSE [boot EXCEPT !.step = "prepared", !.outRoot = ~boot.overwrite]
  /\ UNCHANGED << limVars, runVars, nr >>

\* processFileFactory: normalizeFormat(cfg.format) and normalizeFormat of the
\* fallback format throw on an unsupported format.
MakeProcessFile ==
  /\ boot.step = "prepared"
  /\ boot' = IF \/ normalizeFormat(boot.format).mode = "invalid"
                \/ /\ boot.fallbackFormat # "none"
                   /\ normalizeFormat(boot.fallbackFormat).mode = "invalid"
             THEN [boot EXCEPT !.step = "threw", !.error = "format"]
             ELSE [boot EXCEPT !.step = "factory"]
  /\ UNCHANGED << limVars, runVars, nr >>

\* The limiter is built: createAdaptiveLimiter starts its timer when cfg.auto,
\* else the fixed pump; the walk starts next.
MakeLimiter ==
  /\ boot.step = "factory"
  /\ boot' = [boot EXCEPT !.step = "ready",
                          !.limiter = IF boot.auto THEN "adaptive" ELSE "fixed"]
  /\ UNCHANGED << limVars, runVars, nr >>

ConfigNext == CliMain \/ Merge \/ FsPrep \/ MakeProcessFile \/ MakeLimiter

SpecConfig == ConfigInit /\ [][ConfigNext]_vars

\* ------------------------------------------------------------------------
\* The flatten name resolver: makeFlatName, utf8Truncate, uniquify (SpecNames)
\* ------------------------------------------------------------------------
\* Two files with one base name, from directory a and from directory a or b,
\* are resolved and written one after the other into an output root that may
\* hold files of an earlier run. A name is a sequence of characters, each with
\* its UTF-8 width; Spec above uses one-byte base names, which makeFlatName
\* never truncates.

\* Longest base name, in characters.
MaxBaseLen == 21
\* Largest maxFilenameBytes drawn.
MaxNameBytes == 22
\* Math.max(20, maxBytes) in makeFlatName.
NameBytesFloor == 20
\* .slice(0, 8) of the hex digest.
HashLen == 8

PlainChar(c) == [c |-> c, w |-> 1, k |-> 0, dir |-> "", n |-> 0, sp |-> "", pos |-> 0]
WideChar == [c |-> "e-acute", w |-> 2, k |-> 0, dir |-> "", n |-> 0, sp |-> "", pos |-> 0]
\* What decoding an incomplete UTF-8 sequence yields.
ReplacementChar == [c |-> "U+FFFD", w |-> 3, k |-> 0, dir |-> "", n |-> 0, sp |-> "",
                    pos |-> 0]

\* The base names: n characters x, with none, a two-byte character, a
\* character illegal in file names, or two of those, at position pos.
BaseNames ==
  {b \in [n : 1 .. MaxBaseLen, sp : {"none", "wide", "bad", "bad2"}, pos : 0 .. MaxBaseLen] :
     /\ (b.sp = "none") <=> (b.pos = 0)
     /\ b.pos \in {0, 1, b.n}
     /\ b.sp = "bad2" => b.n >= 2 /\ b.pos = 1}

BaseChars(b) ==
  [j \in 1 .. b.n |->
     IF b.sp = "wide" /\ j = b.pos THEN WideChar
     ELSE IF b.sp = "bad" /\ j = b.pos THEN PlainChar(":")
     ELSE IF b.sp = "bad2" /\ j \in {1, 2} THEN PlainChar(":")
     ELSE PlainChar("x")]

\* The first 8 hex characters of sha1(relDir + '/' + base): a digest stands for
\* its input, two inputs never share one.
HashChars(relDir, b) ==
  [j \in 1 .. HashLen |->
     [c |-> "#", w |-> 1, k |-> j, dir |-> relDir, n |-> b.n, sp |-> b.sp, pos |-> b.pos]]

IllegalChars == {"\\", "/", ":", "*", "?", "\"", "<", ">", "|"}

\* sanitizeSeg: s.replace(/[\\/:*?"<>|]+/g, '_'), every run becomes one '_'.
RECURSIVE sanitizeSeg(_)
sanitizeSeg(s) ==
  IF s = << >> THEN << >>
  ELSE IF Head(s).c \in IllegalChars
  THEN (IF Len(s) >= 2 /\ s[2].c \in IllegalChars
        THEN sanitizeSeg(Tail(s))
        ELSE << PlainChar("_") >> \o sanitizeSeg(Tail(s)))
  ELSE << Head(s) >> \o sanitizeSeg(Tail(s))

\* Buffer.from(str, 'utf8'): per byte, the character it belongs to and whether
\* it is the character's first byte.
RECURSIVE Utf8Bytes(_, _)
Utf8Bytes(s, j) ==
  IF j > Len(s) THEN << >>
  ELSE [b \in 1 .. s[j].w |-> [ch |-> j, lead |-> (b = 1)]] \o Utf8Bytes(s, j + 1)

\* buf.slice(0, end).toString('utf8'): a character whose bytes are not all there
\* decodes to the replacement character.
Utf8Decode(s, buf) ==
  LET leads == SelectSeq(buf, LAMBDA y : y.lead)
      whole(j) == Len(SelectSeq(buf, LAMBDA y : y.ch = j)) = s[j].w
  IN [m \in 1 .. Len(leads) |->
        IF whole(leads[m].ch) THEN s[leads[m].ch] ELSE ReplacementChar]

\* while (end > 0 && (buf[end] & 0xC0) === 0x80) end--;  (buf is 0-based)
RECURSIVE TruncateEnd(_, _)
TruncateEnd(buf, end) ==
  IF end > 0 /\ ~buf[end + 1].lead THEN TruncateEnd(buf, end - 1) ELSE end

\* Mutant: the buffer is cut at maxBytes, wherever that falls.
utf8TruncateMidChar(s, maxBytes) ==
  LET buf == Utf8Bytes(s, 1)
  IN IF Len(buf) <= maxBytes THEN s
     ELSE Utf8Decode(s, SubSeq(buf, 1, maxBytes))

\* utf8Truncate: the string itself when it fits, else the bytes up to the last
\* character boundary at or before maxBytes, decoded.
utf8Truncate(s, maxBytes) ==
  LET buf == Utf8Bytes(s, 1)
  IN IF Len(buf) <= maxBytes THEN s
     ELSE Utf8Decode(s, SubSeq(buf, 1, TruncateEnd(buf, maxBytes)))

\* makeFlatName on characters: the name without its extension, and the
\* extension. relDir is "" or one segment.
flatNameBase(relDir, b, strategy, maxBytes) ==
  LET base == BaseChars(b)
      pathPart == IF relDir = "" THEN << >> ELSE sanitizeSeg(<< PlainChar(relDir) >>)
      nameBase == IF strategy = "path"
                  THEN (IF pathPart # << >> THEN pathPart \o << PlainChar("_") >> \o base
                        ELSE base)
                  ELSE base \o << PlainChar("~") >> \o HashChars(relDir, b)
  IN utf8Truncate(sanitizeSeg(nameBase), Max2(NameBytesFloor, maxBytes))

\* A file name of the output root: nameBase, the ~n uniquify added (0: none),
\* the extension.
NoName == [chars |-> << >>, n |-> 0, ext |-> ""]
flatName(relDir, b, outExt, strategy, maxBytes) ==
  [chars |-> flatNameBase(relDir, b, strategy, maxBytes), n |-> 0, ext |-> outExt]

NamesInit ==
  /\ LimIdle
  /\ RunIdle
  /\ BootIdle
  /\ \E strategy \in {"hash", "path"}, mb \in (NameBytesFloor - 1) .. MaxNameBytes,
        b \in BaseNames, d2 \in {"a", "b"}, pre \in SUBSET {0, 1, 2} :
       nr = [step |-> 0, strategy |-> strategy, maxBytes |-> mb, base |-> b,
             dirs |-> << "a", d2 >>, ext |-> ".jpg",
             taken |-> {[path |-> [flatName("a", b, ".jpg", strategy, mb) EXCEPT !.n = k]] :
                          k \in pre},
             names |-> << NoName, NoName >>, dests |-> << NoName, NoName >>,
             probed |-> << {}, {} >>]

\* computeOut when flattening, for the next of the two files: makeFlatName, then
\* uniquify against what the output root holds now.
ResolveName ==
  /\ nr.step \in {0, 2}
  /\ LET i == (nr.step \div 2) + 1
         name == flatName(nr.dirs[i], nr.base, nr.ext, nr.strategy, nr.maxBytes)
     IN nr' = [nr EXCEPT !.step = @ + 1,
                         !.names[i] = name,
                         !.dests[i] = uniquify(nr.taken, name),
                         !.probed[i] = nr.taken]
  /\ UNCHANGED << limVars, runVars, boot >>

\* The file is written at the resolved name (rename or copy).
WriteName ==
  /\ nr.step \in {1, 3}
  /\ LET i == (nr.step + 1) \div 2
     IN nr' = [nr EXCEPT !.step = @ + 1,
                         !.taken = Put(nr.taken, [path |-> nr.dests[i]])]
  /\ UNCHANGED << limVars, runVars, boot >>

NamesNext == ResolveName \/ WriteName

SpecNames == NamesInit /\ [][NamesNext]_vars

\* ------------------------------------------------------------------------
\* Claims about the adaptive limiter (checked under SpecLimiter)
\* ------------------------------------------------------------------------

\* C3, as stated: after every tick the cap is within [minCap, maxCap], for any
\* configured minCap and maxCap (also minCap > maxCap, which nothing rejects).
C3_CapWithinBoundsAnyConfig ==
  lastTick.ticked => (minConcurrency <= cap /\ cap <= maxConcurrency)

\* C3, amended: after every tick the cap is within [minCap, maxCap], for any
\* sequence of completions, latencies, lags and transient errors, provided the
\* configured bounds satisfy 1 <= minCap <= maxCap.
C3_CapWithinBounds ==
  (lastTick.ticked /\ minConcurrency <= maxConcurrency)
    => (minConcurrency <= cap /\ cap <= maxConcurrency)

\* C3 witness: a tick has just moved the cap, under bounds with room to move.
C3_Witness ==
  /\ lastTick.ticked
  /\ minConcurrency < maxConcurrency
  /\ cap = maxConcurrency
  /\ lastTick.capBefore < cap

\* The case C4 is about: the tick that has just run had lag > lagThreshold and
\* found a cap above minCap and within [minCap, maxCap].
C4_LagTick ==
  /\ lastTick.ticked
  /\ lastTick.lagOver
  /\ lastTick.capBefore > minConcurrency
  /\ lastTick.capBefore <= maxConcurrency

\* cap is max(minCap, ceil(0.7 * capBefore)), the ceiling stated as the least
\* integer k with 10 k >= 7 capBefore.
C4_IsDecreased ==
  \E k \in 0 .. lastTick.capBefore :
    /\ 10 * k >= 7 * lastTick.capBefore
    /\ 10 * (k - 1) < 7 * lastTick.capBefore
    /\ cap = Max2(minConcurrency, k)

\* C4, as stated: such a tick strictly decreases the cap, to
\* max(minCap, ceil(cap * 0.7)).
C4_LagTickStrictlyDecreases ==
  C4_LagTick => (C4_IsDecreased /\ cap < lastTick.capBefore)

\* C4, amended: such a tick sets the cap to max(minCap, ceil(cap * 0.7)), which
\* never exceeds the old cap and is strictly below it exactly when the old cap
\* is at least 4 (for a cap of 2 or 3, ceil(cap * 0.7) = cap: no decrease).
C4_LagTickDecrease ==
  C4_LagTick =>
    /\ C4_IsDecreased
    /\ cap <= lastTick.capBefore
    /\ (cap < lastTick.capBefore <=> lastTick.capBefore >= 4)

\* C4 witness: a lagging tick found a cap of at least 4 and lowered it.
C4_Witness ==
  /\ C4_LagTick
  /\ lastTick.capBefore >= 4
  /\ cap < lastTick.capBefore

\* C5, as stated: three consecutive windows with avgLatency <= targetLatency
\* and no backpressure each raised the cap to min(maxCap, cap + 1).
C5_GoodWindowsRaise ==
  streak.len = 3 => streak.exact

\* C5, amended: three consecutive windows, each with at least one completed
\* sample, avgLatency <= targetLatency and no backpressure, each raised the cap
\* to min(maxCap, cap + 1).
C5_SampledGoodWindowsRaise ==
  streak.slen > 0 => streak.sexact

\* C5 witness: three such windows in a row, the last of them just ticked; the
\* cap started at 2, went to 3 and 4 and was then held at maxCap = 4.
C5_Witness ==
  /\ streak.slen = 3
  /\ lastTick.ticked
  /\ minConcurrency = 1
  /\ maxConcurrency = 4
  /\ cap = 4
  /\ lastTick.capBefore = 4

\* ------------------------------------------------------------------------
\* Claims about resizeImages with the fixed limiter (checked under Spec)
\* ------------------------------------------------------------------------

\* The Outcomes stats.results holds for item i.
OutcomesOf(i) == {k \in 1 .. Len(results) : results[k].item = i}

\* C1: for every run that returns a summary, converted + copied + kept + errors
\* equals the number of work items enumerated.
C1_CountsAddUp ==
  run = "returned" =>
    stats.converted + stats.copied + stats.kept + stats.errors = MaxItems

\* C2: every work item appends exactly one Outcome to summary.results, never
\* zero and never two, on every path of the fallback chain.
C2_OneOutcomePerItem ==
  run = "returned" => \A i \in Items : Cardinality(OutcomesOf(i)) = 1

\* The step is a failed encode attempt (doEncode threw) of item i.
FailedEncodeStep(i) ==
  /\ pc[i] \in {"primary", "fb"}
  /\ Len(tried'[i]) = Len(tried[i]) + 1
  /\ tried'[i][Len(tried'[i])].res # "ok"

\* The temporary file of item i's attempt at its current stage.
AttemptTmp(i) ==
  [path |-> TmpPath(OutFile(i), i, pc[i]), item |-> i, kind |-> "tmp", whole |-> FALSE]

\* The failure reached the caller: the item is not converted by this attempt.
FailurePropagated(i) ==
  /\ pc'[i] \in {"rejected", "sips", "fb", "copy", "keepfail"}
  /\ stats'.converted = stats.converted
  /\ commits' = commits

\* C6, as stated: after a failed encode attempt the temporary path does not
\* exist, the final destination is as it was before the attempt, and the
\* failure is propagated.
C6_FailedEncodeLeavesNoTmp ==
  [][\A i \in Items : FailedEncodeStep(i) =>
        (disk' = disk /\ FailurePropagated(i))]_vars

\* C6, amended: after a failed encode attempt the final destination is as it
\* was before the attempt (not created, not modified), the failure is
\* propagated, and nothing else on the disk changed except that the attempt's
\* own temporary file may remain: its removal is best-effort and a failure to
\* remove it is swallowed.
C6_FailedEncodeLeavesFinal ==
  [][\A i \in Items : FailedEncodeStep(i) =>
        /\ disk \subseteq disk'
        /\ disk' \subseteq (disk \cup {AttemptTmp(i)})
        /\ FailurePropagated(i)]_vars

\* C6 witness: item i's primary encode failed while its final destination held
\* the file another item had committed there, and that file is still in place.
C6_Witness ==
  /\ ~Flat
  /\ \E i \in Items, c \in commits :
       /\ c.item # i
       /\ tried[i] # << >>
       /\ tried[i][1].stage = "primary"
       /\ tried[i][1].res = "corrupt"
       /\ c.path = computeOut(files[i], StageExt(files[i], "primary"), disk)
       /\ [path |-> c.path, item |-> c.item, kind |-> c.kind, whole |-> TRUE] \in disk
       /\ ~\E e \in disk : e.kind = "tmp" /\ e.item = i

\* C7: at every point of a run, every file at a final destination path is
\* complete, whether produced by encode, by the external tool or by the copy.
C7_NoPartialFinalFile ==
  \A e \in disk : e.path.tmp = "" => e.whole

\* C8: in flatten mode no two work items of one run commit to the same
\* destination path.
C8_FlatCommitsDistinct ==
  Flat => \A c1 \in commits, c2 \in commits : c1.item # c2.item => c1.path # c2.path

\* C9: once a work item has committed a file at a destination path, no later
\* step of the run overwrites, replaces or removes that file.
C9_CommittedFilesStay ==
  \A c \in commits :
    [path |-> c.path, item |-> c.item, kind |-> c.kind, whole |-> TRUE] \in disk

\* The primary encode of item i failed with a transient resource error.
TransientPrimary(i) ==
  /\ pc[i] # "new"
  /\ tried[i] # << >>
  /\ tried[i][1].stage = "primary"
  /\ tried[i][1].res = "ENOSPC"

\* C10: when the primary encode of an item fails with a transient resource
\* error, no further stage is attempted for it, the task is rejected, the item's
\* one Outcome is an error and the error counter was incremented for it.
C10_TransientPrimaryEndsItem ==
  \A i \in Items : TransientPrimary(i) =>
    /\ Len(tried[i]) = 1
    /\ pc[i] = "rejected"
    /\ \E k \in OutcomesOf(i) : OutcomesOf(i) = {k} /\ results[k].action = "error"
    /\ stats.errors >= Cardinality({j \in Items : TransientPrimary(j)})
    /\ ~\E c \in commits : c.item = i

\* C10 witness: a run has returned in which an item's primary encode failed
\* with a transient resource error.
C10_Witness ==
  /\ run = "returned"
  /\ \E i \in Items : TransientPrimary(i)

\* ------------------------------------------------------------------------
\* Claims about scheduling (checked under FairSpec)
\* ------------------------------------------------------------------------

\* Every submitted task has settled and resizeImages has returned its summary
\* (adaptive run: allSettled resolved and dispose() ran).
RunDone ==
  \/ run = "returned" /\ \A i \in Items : pc[i] \in {"resolved", "rejected"}
  \/ run = "off" /\ ~timerOn /\ \A i \in Tasks : tstate[i] = "settled"

\* The configured concurrency bound admits at least one task at a time.
PositiveBound ==
  IF run = "off" THEN maxConcurrency >= 1 ELSE cfg.concurrency >= 1

AdaptiveRunning == {i \in Tasks : tstate[i] = "running"}
FixedRunning == {i \in Items : pc[i] \notin {"new", "queued", "resolved", "rejected"}}

\* C12, as stated: in fixed mode the number of in-flight tasks never exceeds
\* the cap C, and in adaptive mode it never exceeds maxCap.
C12_InFlightWithinCap ==
  /\ run = "off" => Cardinality(AdaptiveRunning) <= maxConcurrency
  /\ run \notin {"off", "init"} => Cardinality(FixedRunning) <= cfg.concurrency

\* C12, amended: in fixed mode the number of in-flight tasks never exceeds the
\* cap C; in adaptive mode it never exceeds maxCap provided minCap <= maxCap,
\* and never exceeds the larger of minCap and maxCap in any case. The limiters'
\* counters equal the number of tasks in flight.
C12_InFlightWithinCapOrdered ==
  /\ run = "off" =>
       /\ Cardinality(AdaptiveRunning) = inFlight
       /\ inFlight <= Max2(minConcurrency, maxConcurrency)
       /\ minConcurrency <= maxConcurrency => inFlight <= maxConcurrency
  /\ run \notin {"off", "init"} =>
       /\ Cardinality(FixedRunning) = fixedInFlight
       /\ fixedInFlight <= cfg.concurrency

\* C12 witness: an adaptive run with minCap <= maxCap in which maxCap tasks,
\* more than one, are in flight and another one waits in the queue.
C12_Witness ==
  /\ run = "off"
  /\ minConcurrency <= maxConcurrency
  /\ maxConcurrency >= 2
  /\ Cardinality(AdaptiveRunning) = maxConcurrency
  /\ q # << >>

\* Task i of the adaptive run, item i of the fixed run, has been dispatched.
AdaptiveStarted(i) == tstate[i] \in {"running", "settled"}
FixedStarted(i) == pc[i] \notin {"new", "queued"}

\* C13: tasks are dispatched in the order they were submitted (the order walk()
\* yields them, which is the order of their indices): a task never starts
\* while one submitted before it has not started, in both modes and across cap
\* changes; the pending queue holds the tasks in submission order.
C13_DispatchIsFifo ==
  /\ run = "off" =>
       /\ \A i \in Tasks, j \in Tasks : (i < j /\ AdaptiveStarted(j)) => AdaptiveStarted(i)
       /\ \A k \in 1 .. (Len(q) - 1) : q[k] < q[k + 1]
  /\ run \notin {"off", "init"} =>
       /\ \A i \in Items, j \in Items : (i < j /\ FixedStarted(j)) => FixedStarted(i)
       /\ \A k \in 1 .. (Len(fixedQ) - 1) : fixedQ[k] < fixedQ[k + 1]

\* C13 witness: in an adaptive run the first task has settled, the second,
\* which had to wait in the queue, is running and the third waits.
C13_Witness ==
  /\ run = "off"
  /\ tstate = << "settled", "running", "queued" >>
  /\ q = << 3 >>

\* ------------------------------------------------------------------------
\* Claims about configuration and outcomes (checked under Spec)
\* ------------------------------------------------------------------------

\* Nothing has been enumerated, processed, written or recorded.
NothingDone ==
  /\ \A i \in Items : pc[i] = "new" /\ tried[i] = << >>
  /\ fixedQ = << >>
  /\ fixedInFlight = 0
  /\ results = << >>
  /\ commits = {}
  /\ stats = [converted |-> 0, copied |-> 0, kept |-> 0, errors |-> 0]
  /\ disk = {[path |-> SrcPath(files[i]), item |-> i, kind |-> "orig", whole |-> TRUE] :
               i \in Items}

\* C14: with flatten = true and overwrite = true resizeImages rejects before any
\* work item is enumerated or processed, and no outcome is recorded.
C14_FlattenOverwriteRejected ==
  (cfg.flatten /\ cfg.overwrite) => (run \in {"init", "rejected"} /\ NothingDone)

\* C14 witness: a call with flatten and overwrite has been rejected.
C14_Witness ==
  /\ cfg.flatten
  /\ cfg.overwrite
  /\ run = "rejected"

\* No stage of any item ended with a transient resource error, and no copy
\* failed.
NoTransientNoCopyFailure ==
  \A i \in Items : \A k \in 1 .. Len(tried[i]) :
    /\ ~isTransientResourceError(tried[i][k].res)
    /\ tried[i][k].stage \in {"copy", "skipcopy"} => tried[i][k].res = "ok"

\* Every encode stage attempted for item i failed, and one was attempted.
AllEncodesFailed(i) ==
  /\ tried[i] # << >>
  /\ tried[i][1].stage = "primary"
  /\ \A k \in 1 .. Len(tried[i]) :
       tried[i][k].stage \in {"primary", "sips", "fb"} => tried[i][k].res # "ok"

\* Item i was copied: its one Outcome says so and the copy was committed.
CopiedToDestination(i) ==
  /\ \E k \in OutcomesOf(i) : OutcomesOf(i) = {k} /\ results[k].action = "copied"
  /\ \E c \in commits : c.item = i /\ c.kind = "copy" /\ c.path.ext = files[i].ext

\* C16: in safe mode, in a returned run with no transient resource error and no
\* copy failure, every item ends converted or copied, kept = 0 and errors = 0;
\* an item outside the allow-set and an item whose encode stages all failed
\* are copied.
C16_SafeModeConvertsOrCopies ==
  (run = "returned" /\ ~cfg.overwrite /\ NoTransientNoCopyFailure) =>
    /\ stats.kept = 0
    /\ stats.errors = 0
    /\ stats.converted + stats.copied = MaxItems
    /\ \A i \in Items :
         /\ pc[i] = "resolved"
         /\ \E k \in OutcomesOf(i) :
              OutcomesOf(i) = {k} /\ results[k].action \in {"converted", "copied"}
         /\ files[i].ext \notin DEFAULT_ALLOW_EXT => CopiedToDestination(i)
         /\ AllEncodesFailed(i) => CopiedToDestination(i)

\* C16 witness: a returned safe-mode run without transient error or copy
\* failure that copied a .txt file and a file whose encode stages all failed.
C16_Witness ==
  /\ run = "returned"
  /\ ~cfg.overwrite
  /\ NoTransientNoCopyFailure
  /\ \E i \in Items, j \in Items :
       /\ files[i].ext = ".txt"
       /\ CopiedToDestination(i)
       /\ AllEncodesFailed(j)
       /\ Len(tried[j]) >= 3
       /\ CopiedToDestination(j)

\* Item i ended with a successful encode whose output extension differs from
\* the extension of the original.
ConvertedToOtherExt(i) ==
  /\ tried[i] # << >>
  /\ LET last == tried[i][Len(tried[i])]
     IN /\ last.stage \in {"primary", "fb"}
        /\ last.res = "ok"
        /\ StageExt(files[i], last.stage) # files[i].ext

\* The step is a successful encode of item i, in overwrite mode, to an
\* extension other than the original's.
OverwriteEncodeStep(i) ==
  /\ cfg.overwrite
  /\ pc[i] \in {"primary", "fb"}
  /\ Len(tried'[i]) = Len(tried[i]) + 1
  /\ tried'[i][Len(tried'[i])].res = "ok"
  /\ StageExt(files[i], pc[i]) # files[i].ext

\* The output of that encode, in the directory of the original.
InPlaceOutput(i) == [SrcPath(files[i]) EXCEPT !.ext = StageExt(files[i], pc[i])]

\* C17: in overwrite mode a successful encode to another extension creates the
\* output in the source's own directory and counts the item converted,
\* whether or not the original is then removed; nothing else is written or
\* removed; and an original disappears only in the step that commits the
\* output converted from it.
C17_OverwriteReplacesOriginal ==
  [][\A i \in Items :
       /\ OverwriteEncodeStep(i) =>
            /\ [path |-> InPlaceOutput(i), item |-> i, kind |-> "enc", whole |-> TRUE]
                 \in disk'
            /\ [item |-> i, path |-> InPlaceOutput(i), kind |-> "enc"] \in commits'
            /\ pc'[i] = "resolved"
            /\ stats' = [stats EXCEPT !.converted = @ + 1]
            /\ results' = Append(results, [item |-> i, action |-> "converted", via |-> ""])
            /\ \A e \in disk' : e.path # InPlaceOutput(i) => e \in disk
            /\ \A e \in disk : e.path \notin {InPlaceOutput(i), SrcPath(files[i])}
                                 => e \in disk'
       /\ (cfg.overwrite /\ exists(disk, SrcPath(files[i]))
             /\ ~exists(disk', SrcPath(files[i]))) => OverwriteEncodeStep(i)]_vars

\* C17 witness: a returned overwrite run in which one item was converted to
\* another extension and its original removed, and another was converted to
\* another extension while its original could not be removed.
C17_Witness ==
  /\ cfg.overwrite
  /\ run = "returned"
  /\ \E i \in Items, j \in Items :
       /\ ConvertedToOtherExt(i)
       /\ ~exists(disk, SrcPath(files[i]))
       /\ ConvertedToOtherExt(j)
       /\ exists(disk, SrcPath(files[j]))

\* The number of Outcomes in stats.results with the given action.
OutcomeCount(action) == Cardinality({k \in 1 .. Len(results) : results[k].action = action})

\* C20: in the returned summary each counter equals the number of Outcomes
\* with that action: converted, copied, kept, and errors against action error.
C20_CountersMatchOutcomes ==
  run = "returned" =>
    /\ stats.converted = OutcomeCount("converted")
    /\ stats.copied = OutcomeCount("copied")
    /\ stats.kept = OutcomeCount("kept")
    /\ stats.errors = OutcomeCount("error")

\* ------------------------------------------------------------------------
\* Claims about the start of the call (checked under SpecConfig)
\* ------------------------------------------------------------------------

\* C15: a call that sets overwrite = true and leaves flatten unspecified, made
\* directly or through the CLI with only --overwrite, never fails on the
\* flatten / overwrite conflict.
C15_OverwriteAloneIsValid ==
  (boot.overwrite /\ boot.flatten = "unset") => boot.error # "conflict"

\* ------------------------------------------------------------------------
\* Claims about the flat names (checked under SpecNames)
\* ------------------------------------------------------------------------

\* C18: with the hash strategy, two items with the same base name and output
\* extension and different relative directories get distinct names from
\* makeFlatName, for every base name and every maxFilenameBytes.
C18_HashNamesDistinct ==
  (nr.strategy = "hash" /\ nr.dirs[1] # nr.dirs[2] /\ nr.step >= 3) =>
    nr.names[1] # nr.names[2]

\* Item i of the two has been resolved.
Resolved(i) == nr.step >= 2 * i - 1

\* name~k.ext (k = 0: the name itself).
Candidate(name, k) == [name EXCEPT !.n = k]

\* C19: the resolver returns the computed name when it does not exist at the
\* time of the probe, else stem~k.ext for the smallest k >= 1 that does not
\* exist then; the second item's probe sees what the first one wrote, so two
\* items that compute the same name in an empty output root get name.ext and
\* name~1.ext.
C19_SmallestFreeSuffix ==
  /\ \A i \in {1, 2} : Resolved(i) =>
       LET name == nr.names[i]
           seen == nr.probed[i]
           k == nr.dests[i].n
       IN /\ nr.dests[i] = Candidate(name, k)
          /\ ~exists(seen, nr.dests[i])
          /\ \A j \in 0 .. (k - 1) : exists(seen, Candidate(name, j))
  /\ Resolved(2) => \A e \in nr.probed[1] \cup {[path |-> nr.dests[1]]} : e \in nr.probed[2]
  /\ (Resolved(2) /\ nr.probed[1] = {} /\ nr.names[1] = nr.names[2]) =>
       /\ nr.dests[1] = nr.names[1]
       /\ nr.dests[2] = Candidate(nr.names[1], 1)

\* C19 witness: both items computed the same name; the output root held
\* name.ext and name~2.ext, so the first item got name~1.ext and the second
\* name~3.ext.
C19_Witness ==
  /\ nr.step = 4
  /\ nr.names[1] = nr.names[2]
  /\ nr.dests[1].n = 1
  /\ nr.dests[2].n = 3

\* ------------------------------------------------------------------------
\* Claims about the ticks of the adaptive limiter (checked under SpecLimiter)
\* ------------------------------------------------------------------------

\* Backpressure as the tick that has just run saw it: lag above the threshold,
\* a transient error in the window, or an average latency above 1.25 x target.
TickBackpressure == lastTick.lagOver \/ lastTick.emf \/ lastTick.lat = "above"

\* The two rules, applied to the cap the tick found.
DecreasedCap == Max2(minConcurrency, CeilSeventy(lastTick.capBefore))
IncreasedCap == Min2(maxConcurrency, lastTick.capBefore + 1)

\* C21: a tick under backpressure (lag > lagThreshold, or a transient error in
\* the window, or avgLatency > 1.25 x targetLatency) applies the multiplicative
\* decrease and not the additive increase, also when avgLatency <= targetLatency;
\* a tick without backpressure does not apply the decrease.
C21_BackpressureDecreases ==
  lastTick.ticked =>
    /\ TickBackpressure => cap = DecreasedCap
    /\ ~TickBackpressure => cap \in {lastTick.capBefore, IncreasedCap}

\* C21 witness: a tick with lag above the threshold and an average latency
\* within the target has kept the cap at the decrease rule's value although
\* the increase rule would have raised it.
C21_Witness ==
  /\ lastTick.ticked
  /\ lastTick.lagOver
  /\ lastTick.lat = "within"
  /\ cap = DecreasedCap
  /\ IncreasedCap > lastTick.capBefore

\* C22: a tick without backpressure leaves the cap unchanged when no task
\* completed in the window and when targetLatency < avgLatency <= 1.25 x
\* targetLatency; a tick changes the cap only by the decrease rule (under
\* backpressure) or by the increase rule (no backpressure, a sample, and
\* avgLatency <= targetLatency).
C22_QuietTickKeepsCap ==
  lastTick.ticked =>
    /\ (~TickBackpressure /\ lastTick.lat \in {"none", "between"}) =>
         cap = lastTick.capBefore
    /\ cap # lastTick.capBefore =>
         \/ TickBackpressure /\ cap = DecreasedCap
         \/ ~TickBackpressure /\ lastTick.lat = "within" /\ cap = IncreasedCap

\* C22 witness: a tick without backpressure whose window had an average
\* latency between the target and 1.25 x the target has left a cap below
\* maxCap unchanged.
C22_Witness ==
  /\ lastTick.ticked
  /\ ~TickBackpressure
  /\ lastTick.lat = "between"
  /\ cap = lastTick.capBefore
  /\ cap < maxConcurrency

\* C23: the latency sample recorded when a task settles is the time from its
\* dispatch by pump() to its completion; the time it spent in the pending
\* queue is not part of the sample.
C23_SampleIsRunTime ==
  [][\A i \in Tasks, outcome \in Outcomes :
       SettleTask(i, outcome) => sumLatency' - sumLatency = age[i] - waited[i]]_vars

\* The limiter has just been created: no file has been scheduled, no time has
\* passed and no tick has run.
JustCreated ==
  /\ timerOn
  /\ \A i \in Tasks : tstate[i] = "new"
  /\ sinceTick = 0
  /\ lastTick = NoTick
  /\ streak = NoStreak

\* C24, as stated: in adaptive mode the controller starts with
\* cap = min(2, maxCap), for every configured minCap and maxCap.
C24_StartsAtTwoOrMax == JustCreated => cap = Min2(2, maxConcurrency)

\* C24, amended: the controller starts with cap = min(2, maxCap) when
\* minCap <= min(2, maxCap), and with cap = min(minCap, maxCap) otherwise.
C24_StartsClamped ==
  JustCreated =>
    cap = IF minConcurrency <= Min2(2, maxConcurrency)
          THEN Min2(2, maxConcurrency)
          ELSE Min2(minConcurrency, maxConcurrency)

\* C24 witness: a controller created with minCap 3 and maxCap 4 starts at 3.
C24_Witness ==
  /\ JustCreated
  /\ minConcurrency = 3
  /\ maxConcurrency = 4
  /\ cap = 3

\* C25: with thread auto-tuning on, at startup and after every tick the pool
\* size given to the codec engine is clamp(floor(targetThreads / max(1, cap)),
\* minThreads, maxThreads) for the controller's current cap: its initial cap
\* at startup, the just-updated cap after a tick.
C25_ThreadsFollowCap ==
  (threads.auto /\ (JustCreated \/ lastTick.ticked)) =>
    threads.pool = clamp(targetThreads \div Max2(1, cap), minSharpThreads, maxSharpThreads)

\* ------------------------------------------------------------------------
\* Claims about the in-flight counter (checked under FairSpec)
\* ------------------------------------------------------------------------

\* C26: in both limiters the in-flight counter equals the number of tasks that
\* have been dispatched and have not settled, whether the tasks that settled
\* succeeded or failed, and it is never negative.
C26_InFlightCountsRunning ==
  /\ run = "off" =>
       /\ inFlight = Cardinality(AdaptiveRunning)
       /\ inFlight >= 0
  /\ run # "off" =>
       /\ fixedInFlight = Cardinality(FixedRunning)
       /\ fixedInFlight >= 0

\* C26 witness: in an adaptive run a task has failed with a transient error
\* in the current window, one task is running and another has settled.
C26_Witness ==
  /\ run = "off"
  /\ emfileCount > 0
  /\ inFlight = 1
  /\ \E i \in Tasks, j \in Tasks : tstate[i] = "settled" /\ tstate[j] = "running"

\* ------------------------------------------------------------------------
\* Claims about the dispatch of the adaptive limiter (checked under SpecBurst)
\* ------------------------------------------------------------------------

\* A task is started by the step.
StartsTask == \E i \in Tasks : tstate[i] # "running" /\ tstate'[i] = "running"

\* C27: the controller is work-conserving: once a schedule call, a task
\* completion or a tick has finished, the pending queue is empty or
\* inFlight >= cap; a step starts a task only while inFlight < cap, so it ends
\* with inFlight <= cap, and from a state with inFlight > cap no step does.
C27_WorkConserving ==
  [][/\ (q' = << >> \/ inFlight' >= cap')
     /\ StartsTask => inFlight' <= cap'
     /\ (inFlight > cap /\ cap' = cap) => ~StartsTask]_vars

\* C27 witness: a tick has lowered the cap below the number of tasks in
\* flight while a task waits in the queue.
C27_Witness ==
  /\ lastTick.ticked
  /\ cap < lastTick.capBefore
  /\ inFlight > cap
  /\ q # << >>

\* ------------------------------------------------------------------------
\* Claims about the window's accumulators (checked under SpecLimiter)
\* ------------------------------------------------------------------------

\* C28: a task that fails with a transient resource error increments the
\* window's transient error count, the count stays above zero until the next
\* tick, and that tick applies the decrease; a task that fails with another
\* error adds a latency sample and leaves the transient error count alone.
C28_TransientFailureBacksOff ==
  [][/\ \A i \in Tasks :
          /\ SettleTask(i, "transient") =>
               (emfileCount' = emfileCount + 1 /\ samples' = samples + 1)
          /\ SettleTask(i, "content") =>
               (emfileCount' = emfileCount /\ samples' = samples + 1)
     /\ (emfileCount > 0 /\ ~lastTick'.ticked) => emfileCount' >= emfileCount
     /\ (emfileCount > 0 /\ lastTick'.ticked) =>
          cap' = Max2(minConcurrency, CeilSeventy(cap))]_vars

\* C28 witness: a tick has applied the decrease to a window whose only sign of
\* backpressure was a transient error, the average latency being within the
\* target and the cap below maxCap.
C28_Witness ==
  /\ lastTick.ticked
  /\ lastTick.emf
  /\ ~lastTick.lagOver
  /\ lastTick.lat = "within"
  /\ cap = DecreasedCap
  /\ IncreasedCap > lastTick.capBefore

\* C29: every tick emits a telemetry event that carries the just-updated cap
\* and then resets sumLatency, samples and the transient error count to zero,
\* so that the next tick sees only the tasks that settle after this one.
C29_TickEmitsAndResets ==
  lastTick.ticked =>
    /\ lastTick.event.inFlightCap = cap
    /\ sumLatency = 0
    /\ samples = 0
    /\ emfileCount = 0

\* C29 witness: a tick whose window had samples has changed the cap and
\* emitted the new value.
C29_Witness ==
  /\ lastTick.ticked
  /\ lastTick.lat # "none"
  /\ cap # lastTick.capBefore
  /\ lastTick.event.inFlightCap = cap

\* ------------------------------------------------------------------------
\* Claims about the end of the adaptive run (checked under SpecWalk)
\* ------------------------------------------------------------------------

\* resizeImages has returned its summary; resizeImages has rejected because
\* the enumeration failed.
AdaptiveReturned == ~timerOn /\ \A i \in Tasks : tstate[i] = "settled"
AdaptiveRejected == \E i \in Tasks : tstate[i] = "unwalked"

\* C30: in adaptive mode, once resizeImages has settled after the controller
\* was created (it returned a summary, or it rejected because the directory
\* enumeration failed), the controller's timer has been disposed, so that no
\* tick fires afterwards.
C30_SettledRunHasNoTimer == (AdaptiveReturned \/ AdaptiveRejected) => ~timerOn

\* ------------------------------------------------------------------------
\* Claims about the order of the start of the call (checked under SpecConfig)
\* ------------------------------------------------------------------------

\* C31: validation of the configuration comes first: when resizeImages fails
\* on an invalid format or fallback-format string, as when it fails on the
\* flatten / overwrite conflict, the output root has not been created and no
\* controller has been created.
C31_ValidationComesFirst ==
  boot.error \in {"format", "conflict"} => (~boot.outRoot /\ boot.limiter = "none")

\* ------------------------------------------------------------------------
\* Claims about the fallback chain (checked under Spec)
\* ------------------------------------------------------------------------

\* The place of a stage in the chain; the copy and the keep of CHECK_EXT and
\* RESOLVE_TARGET are not part of it.
StageRank(stage) ==
  IF stage = "primary" THEN 1
  ELSE IF stage = "sips" THEN 2
  ELSE IF stage = "fb" THEN 3
  ELSE IF stage \in {"copy", "keepfail"} THEN 4
  ELSE 0

\* Item i has attempted the stage.
Tried(i, stage) == \E k \in 1 .. Len(tried[i]) : tried[i][k].stage = stage

\* C32: after a non-transient failure of the primary encode the stages run in
\* the order external tool, fallback format, copy / keep; a stage is attempted
\* only after every earlier stage failed or did not apply, nothing is attempted
\* after a stage that succeeded, and an item whose copy succeeds never ends as
\* an error.
C32_ChainOrder ==
  run # "init" =>
    \A i \in Items :
      LET t == tried[i]
          f == files[i]
      IN /\ \A k \in 1 .. Len(t), l \in 1 .. Len(t) :
              k < l => /\ StageRank(t[k].stage) < StageRank(t[l].stage)
                       /\ t[k].res # "ok"
         /\ (Len(t) > 1 /\ t[1].stage = "primary") => ~isTransientResourceError(t[1].res)
         /\ (Tried(i, "fb") \/ Tried(i, "copy") \/ Tried(i, "keepfail")) =>
              /\ Tried(i, "primary")
              /\ Tried(i, "sips") <=> SipsApplies(f)
         /\ (Tried(i, "copy") \/ Tried(i, "keepfail")) =>
              (Tried(i, "fb") <=> FbApplies)
         /\ pc[i] = "rejected" =>
              /\ Len(t) > 0
              /\ t[Len(t)].res # "ok"
              /\ t[Len(t)].stage \in {"primary", "copy", "skipcopy"}
              /\ t[Len(t)].stage = "primary" => isTransientResourceError(t[Len(t)].res)

\* C32 witness: an item went through the whole chain: the primary encode
\* failed on a content error, the external tool failed, the fallback format
\* failed, and the copy succeeded.
C32_Witness ==
  \E i \in Items :
    /\ pc[i] = "resolved"
    /\ Len(tried[i]) = 4
    /\ tried[i][1] = [stage |-> "primary", res |-> "corrupt"]
    /\ tried[i][2].stage = "sips"
    /\ tried[i][3].stage = "fb"
    /\ tried[i][4] = [stage |-> "copy", res |-> "ok"]

\* C33: for one work item no target format is encoded twice: the
\* fallback-format stage is attempted only when the fallback format differs
\* from the format attempted as the primary target of the item.
C33_NoFormatEncodedTwice ==
  run # "init" =>
    \A i \in Items :
      (Tried(i, "primary") /\ Tried(i, "fb")) => Target(files[i]).key # Fb.key

\* C34: a transient resource error raised by any encode attempt of an item
\* (primary, external tool or fallback format) ends the item as an error
\* re-thrown to the controller: it is the item's last attempt and the item's
\* task is rejected.
C34_TransientEndsItem ==
  run # "init" =>
    \A i \in Items : \A k \in 1 .. Len(tried[i]) :
      (/\ tried[i][k].stage \in {"primary", "sips", "fb"}
       /\ isTransientResourceError(tried[i][k].res)) =>
        (k = Len(tried[i]) /\ pc[i] = "rejected")

\* C35: for a file whose extension is outside the allow-set no encode and no
\* external-tool attempt is ever made: the item goes straight to the copy in
\* safe mode and to the keep in overwrite mode.
C35_DisallowedNeverEncoded ==
  run # "init" =>
    \A i \in Items :
      files[i].ext \notin DEFAULT_ALLOW_EXT =>
        /\ pc[i] \in {"new", "queued", "resolved", "rejected", "skipcopying",
                       IF cfg.overwrite THEN "keep" ELSE "skipcopy"}
        /\ \A k \in 1 .. Len(tried[i]) :
             tried[i][k].stage = (IF cfg.overwrite THEN "keep" ELSE "skipcopy")

\* C35 witness: a file outside the allow-set has been copied in safe mode
\* after a single attempt, the copy.
C35_Witness ==
  \E i \in Items :
    /\ files[i].ext \notin DEFAULT_ALLOW_EXT
    /\ ~cfg.overwrite
    /\ pc[i] = "resolved"
    /\ tried[i] = << [stage |-> "skipcopy", res |-> "ok"] >>
    /\ \E k \in 1 .. Len(results) : results[k].item = i /\ results[k].action = "copied"

\* The file is in the allow-set and its own format has no encoder.
NoSameEncoder(f) == f.ext \in DEFAULT_ALLOW_EXT /\ f.ext \notin ENCODE_SAME_OK

\* C36: with the format "same", for a file in the allow-set whose format has
\* no encoder, the primary target is the configured fallback format when one
\* is set (the first attempt is the primary encode and it writes a file with
\* the fallback format's extension), and otherwise the item is copied or kept
\* without any encode attempt.
C36_NoEncoderUsesFallback ==
  run # "init" =>
    \A i \in Items :
      (Fmt.mode = "same" /\ NoSameEncoder(files[i])) =>
        IF HasFb
        THEN /\ pc[i] \notin {"skipcopy", "skipcopying", "keep"}
             /\ Len(tried[i]) > 0 =>
                  /\ tried[i][1].stage = "primary"
                  /\ tried[i][1].res = "ok" =>
                       \E c \in commits :
                         c.item = i /\ c.kind = "enc" /\ c.path.ext = Fb.outExt
        ELSE /\ pc[i] \notin {"primary", "sips", "fb", "copy", "copying", "keepfail"}
             /\ \A k \in 1 .. Len(tried[i]) :
                  tried[i][k].stage = (IF cfg.overwrite THEN "keep" ELSE "skipcopy")

\* C36 witness: with the format "same" and the fallback format png, a .bmp
\* file has been converted by its primary encode to a .png file.
C36_Witness ==
  \E i \in Items :
    /\ Fmt.mode = "same"
    /\ cfg.fallbackFormat = "png"
    /\ files[i].ext = ".bmp"
    /\ tried[i] = << [stage |-> "primary", res |-> "ok"] >>
    /\ \E c \in commits : c.item = i /\ c.kind = "enc" /\ c.path.ext = ".png"

\* The Outcomes of item i with the given action.
HasOutcome(i, action) == \E k \in OutcomesOf(i) : results[k].action = action

\* The source file of item i is on the disk as the walk found it.
SourceIntact(i) ==
  \E e \in disk :
    e.path = SrcPath(files[i]) /\ e.item = i /\ e.kind = "orig" /\ e.whole

\* A copy of item i was attempted and failed.
CopyAttemptFailed(i) ==
  \E k \in 1 .. Len(tried[i]) :
    tried[i][k].stage \in {"copy", "skipcopy"} /\ tried[i][k].res # "ok"

\* C37, first part: in safe mode an item reported copied was copied to a
\* destination in the output tree and its source file is unchanged.
C37_SafeCopy ==
  (run # "init" /\ ~cfg.overwrite) =>
    \A i \in Items :
      HasOutcome(i, "copied") =>
        /\ \E c \in commits : c.item = i /\ c.kind = "copy" /\ c.path.root = "out"
        /\ SourceIntact(i)

\* C37, second part: in overwrite mode an item reported kept wrote nothing and
\* its original is untouched.
C37_OverwriteKeep ==
  (run # "init" /\ cfg.overwrite) =>
    \A i \in Items :
      HasOutcome(i, "kept") =>
        /\ ~\E c \in commits : c.item = i
        /\ SourceIntact(i)

\* C37, third part: an item whose copy failed ends as an error Outcome.
C37_CopyFailureIsError ==
  run # "init" =>
    \A i \in Items :
      (CopyAttemptFailed(i) /\ pc[i] \in {"resolved", "rejected"}) =>
        HasOutcome(i, "error")

\* C37, fourth part: in safe mode no work item's source file is modified or
\* removed by the run.
C37_SafeSourcesUntouched ==
  (run # "init" /\ ~cfg.overwrite) => \A i \in Items : SourceIntact(i)

\* C37: at COPY_OR_KEEP, in safe mode the original is copied to its resolved
\* destination and the source is left unchanged, in overwrite mode nothing is
\* written and the original is left untouched, a failed copy ends the item as
\* an error Outcome; in safe mode no work item's source file is ever modified
\* or removed by the run.
C37_CopyOrKeepFrame ==
  /\ C37_SafeCopy
  /\ C37_OverwriteKeep
  /\ C37_CopyFailureIsError
  /\ C37_SafeSourcesUntouched

\* The case C38 is about: the tick that has just run saw backpressure and found
\* a cap within [minCap, maxCap].
C38_BackpressureTick ==
  /\ lastTick.ticked
  /\ TickBackpressure
  /\ lastTick.capBefore >= minConcurrency
  /\ lastTick.capBefore <= maxConcurrency

\* The value at which repeated decrease from capBefore stops: ceil(0.7 c) = c
\* for c <= 3.
DecreaseFloor == Max2(minConcurrency, Min2(lastTick.capBefore, 3))

\* C38, as stated: the multiplicative decrease does not stop above minCap, that
\* is, a backpressure tick that finds a cap above minCap leaves a lower cap, so
\* that backpressure at every tick brings the cap to minCap.
C38_DecreaseReachesMin ==
  (C38_BackpressureTick /\ lastTick.capBefore > minConcurrency) =>
    cap < lastTick.capBefore

\* C38, amended: a backpressure tick never raises the cap and never takes it
\* below max(minCap, min(cap, 3)); it leaves the cap as it is exactly when the cap
\* it found is that value. Repeated decrease stops at max(minCap, min(cap, 3)).
C38_DecreaseStopsAtFloor ==
  C38_BackpressureTick =>
    /\ cap <= lastTick.capBefore
    /\ cap >= DecreaseFloor
    /\ (cap = lastTick.capBefore <=> lastTick.capBefore = DecreaseFloor)

\* C38 witness: a tick under backpressure from a transient error found a cap of
\* 3 with minCap 1 and left it at 3.
C38_Witness ==
  /\ C38_BackpressureTick
  /\ lastTick.emf
  /\ minConcurrency = 1
  /\ lastTick.capBefore = 3
  /\ cap = 3

\* Buffer.byteLength(s, 'utf8') of a name.
Utf8Len(s) == Len(Utf8Bytes(s, 1))

\* The sanitized name of item i before truncation: makeFlatName with a limit
\* no name of the model reaches.
Untruncated(i) ==
  flatNameBase(nr.dirs[i], nr.base, nr.strategy, 2 * (MaxBaseLen + HashLen + 2))

\* s is a prefix of t, character by character.
IsPrefix(s, t) == Len(s) <= Len(t) /\ \A j \in 1 .. Len(s) : s[j] = t[j]

FailedSipsStep(i) ==
  /\ pc[i] = "sips"
  /\ Len(tried'[i]) = Len(tried[i]) + 1
  /\ tried'[i][Len(tried'[i])].stage = "sips"
  /\ tried'[i][Len(tried'[i])].res # "ok"

\* C40: after a failed attempt of the external tool its temporary output path
\* does not exist and its final destination path is unchanged: the disk is as
\* it was before the attempt.
C40_FailedSipsLeavesNoTmp ==
  [][\A i \in Items : FailedSipsStep(i) =>
        /\ ~\E e \in disk' : e.path = TmpPath(OutFile(i), i, "sips")
        /\ \A e \in disk : e.path = OutFile(i) => e \in disk'
        /\ \A e \in disk' : e.path = OutFile(i) => e \in disk]_vars

\* C40, the part about the final destination alone.
C40_FailedSipsLeavesFinal ==
  [][\A i \in Items : FailedSipsStep(i) =>
        /\ \A e \in disk : e.path = OutFile(i) => e \in disk'
        /\ \A e \in disk' : e.path = OutFile(i) => e \in disk]_vars

====
